---- MODULE Spec2Model ----
(***************************************************************************)
(* A model of the flasker sources (src/flask): the application-context     *)
(* stack (ctx.py), the first-request trigger, response normalisation and   *)
(* the request dispatch pipeline (app.py) and cookie sessions              *)
(* (sessions.py).                                                          *)
(*                                                                         *)
(* Reading conventions.  Lines 1-196 of app.py are lower-cased in the      *)
(* source (none/true/false, lower-case configuration keys); identifiers    *)
(* and keys there are read case-insensitively, and the application object  *)
(* is taken as constructed (Init is the state after __init__).  Everything *)
(* that runs after construction is modelled as written: an attribute that  *)
(* is misspelled in the source raises AttributeError where it is read.     *)
(*                                                                         *)
(* The module holds several specifications over one set of variables; a    *)
(* specification leaves the variables of the other parts unchanged.        *)
(***************************************************************************)
EXTENDS Integers, Sequences, FiniteSets, TLC

\* Python's None.
None == "None"

\* ------------------------------------------------------------------------
\* Bounds of the model.
MaxDepth == 3      \* length of the application-context stack, and of a reference count
MaxUnder == 1      \* how far below zero a reference count may be driven
MaxHooks == 2      \* registered functions per hook table
MaxCalls == 2      \* calls counted per before-first-request function
MaxReg == 2        \* registrations made on one application

\* The application contexts that exist (AppContext objects).
AppCtxs == {"a1", "a2"}
\* Exceptions a caller can pass, or that can be in flight (sys.exc_info()[1]).
ExcOrNone == {None, "E"}

VARIABLES
    \* ---- ctx.py: the application-context stack of one execution unit
    app_ctx_stack,   \* _app_ctx_stack, bottom first
    refcnt,          \* AppContext._refcnt, per context
    td_app_n,        \* len(app.teardown_appcontext_funcs); functions are named
                     \* 1..td_app_n in registration order
    lastPop,         \* what the latest AppContext.pop call did
    opened,          \* history: pushes not yet matched by a pop call (kept
                     \* while nested holds)
    nested,          \* history: every pop so far named the latest open push
    aborted          \* history: some pop call ended in an exception

ctxVars == <<app_ctx_stack, refcnt, td_app_n, lastPop, opened, nested, aborted>>

\* The threads of the host server that handle requests.
Threads == {"t1", "t2", "t3"}

VARIABLES
    \* ---- app.py: the first-request trigger, called by several threads
    got_first_request,    \* Flask._got_first_request
    before_request_lock,  \* Flask._before_request_lock: its holder, or None
    bf_n,                 \* len(app.before_first_request_funcs); functions are
                          \* named 1..bf_n in registration order
    tpc,                  \* per thread: where it is in
                          \* try_trigger_before_first_request_functions
    tidx,                 \* per thread: the function its loop is at
    tret,                 \* per thread: how its latest call ended
    bf_calls,             \* history: calls the threads made of each function
    sets                  \* history: the threads' executions of line 570

firstVars == <<got_first_request, before_request_lock, bf_n, tpc, tidx, tret,
               bf_calls, sets>>

VARIABLES
    \* ---- app.py: make_response applied to a view's return value
    mr_in,     \* the value given to make_response
    mr_out     \* what the call did: a response, or the exception raised

respVars == <<mr_in, mr_out>>

VARIABLES
    \* ---- sessions.py: one client's cookie session
    session,         \* the request's SecureCookieSession: its keys and its
                     \* modified attribute
    refresh_each,    \* app.config['SESSION_REFRESH_EACH_REQUEST']
    cookie,          \* the session cookie the client holds, if it holds one
    lastSave         \* what the latest save_session call did

sessVars == <<session, refresh_each, cookie, lastSave>>

VARIABLES
    \* ---- app.py: the application's configuration and registries, and the
    \* latest call made on the application
    debug,                    \* app.debug (config['DEBUG'])
    trap_http_exceptions,     \* config['TRAP_HTTP_EXCEPTIONS']
    before_request_funcs,     \* per scope: len(app.before_request_funcs[scope]);
                              \* the functions of a scope are named 1..n in
                              \* registration order (so for the next three)
    after_request_funcs,      \* app.after_request_funcs
    teardown_request_funcs,   \* app.teardown_request_funcs
    url_value_preprocessors,  \* app.url_value_preprocessors
    error_handler_spec,       \* app.error_handler_spec[None][None]: the exception
                              \* classes of the typed handlers, in registration order
    blueprints,               \* app.blueprints: per name, the Blueprint object
                              \* registered under it, or None
    url_map,                  \* how many rules app.url_map holds
    view_functions,           \* app.view_functions: per endpoint, the view
                              \* function or None
    error_handler_codes,      \* per scope, the integer keys of
                              \* error_handler_spec[scope]
    error_handler_spec_bp,    \* error_handler_spec["bp"][None], the typed
                              \* handlers of the blueprint scope
    last                      \* the latest call and what it did

hookTables == <<before_request_funcs, after_request_funcs, teardown_request_funcs,
                url_value_preprocessors>>

setupTables == <<blueprints, url_map, view_functions, error_handler_codes,
                 error_handler_spec_bp>>
pipeVars == <<debug, trap_http_exceptions, hookTables, error_handler_spec,
              setupTables, last>>

VARIABLES
    \* ---- ctx.py: the request-context stack of one execution unit
    request_ctx_stack,   \* _request_ctx_stack, bottom first
    preserved,           \* RequestContext.preserved, per context
    preserved_exc,       \* RequestContext._preserved_exc, per context
    implicit_app_ctx,    \* RequestContext._implicit_app_ctx_stack, per context
    lastPush,            \* what the latest RequestContext.push call did
    preserve_context     \* testing.py: FlaskClient.preserve_context of the test client

VARIABLES
    \* ---- helpers.py: flash messages of one client
    session_flashes,     \* session['_flashes']: whether the key is there, and the list
    ctx_flashes,         \* RequestContext.flashes of the current request
    lastFlash            \* what the latest flash / get_flashed_messages call did

flashVars == <<session_flashes, ctx_flashes, lastFlash>>

reqVars == <<request_ctx_stack, preserved, preserved_exc, implicit_app_ctx, lastPush,
             preserve_context, flashVars>>

VARIABLES
    \* ---- app.py, helpers.py: the lazily created logger and Jinja environment
    logger,              \* app._logger: 0 for None, or n for the logger as
                         \* set up by the n-th create_logger call
    logger_lock,         \* _logger_lock: None or the thread that holds it
    jinja_env,           \* app.__dict__['jinja_env']: 0 when missing, or n for
                         \* the environment the n-th create_jinja_environment made
    jinja_lock,          \* the lock of the jinja_env property
    n_create_logger,     \* history: create_logger calls so far
    n_create_jinja,      \* history: create_jinja_environment calls so far
    lzpc,                \* per thread, where it is in its property access
    lzval,               \* per thread, the local 'rv' / 'value'
    lzgot                \* per thread, what its accesses returned and how

lazyVars == <<logger, logger_lock, jinja_env, jinja_lock, n_create_logger,
              n_create_jinja, lzpc, lzval, lzgot>>

vars == <<ctxVars, firstVars, respVars, sessVars, pipeVars, reqVars, lazyVars>>

\* ------------------------------------------------------------------------
\* Sequence helpers.
Last(s) == s[Len(s)]
Front(s) == SubSeq(s, 1, Len(s) - 1)
Count(x, s) == Cardinality({i \in 1..Len(s) : s[i] = x})

\* ------------------------------------------------------------------------
\* app.py, setup calls.

\* The keys of the hook tables: None for the application, "bp" for the
\* blueprint.
Scopes == {None, "bp"}

\* The names blueprints have, and the endpoints views are registered for.
BlueprintNames == {"bp"}
Endpoints == {"index"}

\* What 'last' holds: no call, or a setup call and how it ended.
Idle == [op |-> "idle"]
Setup(outcome) == [op |-> "setup", outcome |-> outcome]

\* The registrations made so far.
TotalReg ==
    before_request_funcs[None] + before_request_funcs["bp"]
    + after_request_funcs[None] + after_request_funcs["bp"]
    + teardown_request_funcs[None] + teardown_request_funcs["bp"]
    + url_value_preprocessors[None] + url_value_preprocessors["bp"]
    + bf_n + Len(error_handler_spec)
    + Cardinality({n \in BlueprintNames : blueprints[n] # None})
    + url_map + Cardinality({e \in Endpoints : view_functions[e] # None})
    + Len(error_handler_spec_bp) + td_app_n

\* setupmethod (lines 46-59): the wrapped call is refused with an
\* AssertionError when the application is in debug mode and has handled its
\* first request.
setupmethod_refuses_mut == FALSE
setupmethod_refuses == debug /\ got_first_request

\* ------------------------------------------------------------------------
\* ctx.py, AppContext

NoPop == [ctx |-> None, exc |-> None, amb |-> None, raiseAt |-> 0, wasTop |-> FALSE,
          ranTeardown |-> FALSE, calls |-> <<>>, outcome |-> "none"]

\* werkzeug LocalStack.top / LocalStack.pop as used by ctx.py: the top is None
\* on an empty stack, and pop on an empty stack returns None.
StackTop(s) == IF s = <<>> THEN None ELSE Last(s)
StackPopped(s) == IF s = <<>> THEN <<>> ELSE Front(s)

\* Flask.do_teardown_appcontext: the registered functions n, n-1, .., 1 are
\* called with exc; the function raiseAt (0: none) raises, which ends the
\* loop.  The result is the calls made and whether one raised.
do_teardown_appcontext_mut(n, exc, raiseAt) ==
    LET m == IF raiseAt \in 1..n THEN raiseAt ELSE n
    IN  [calls |-> [k \in 1..m |-> <<k, exc>>],
         raised |-> raiseAt \in 1..n]
do_teardown_appcontext(n, exc, raiseAt) ==
    LET m == IF raiseAt \in 1..n THEN n - raiseAt + 1 ELSE n
    IN  [calls |-> [k \in 1..m |-> <<n - k + 1, exc>>],
         raised |-> raiseAt \in 1..n]

\* The comparison of AppContext.pop's assertion, 'rv is self'.
PoppedMut(rv, c) == TRUE
Popped(rv, c) == rv = c

\* AppContext.push: the count goes up and the context is put on the stack,
\* on every call.
push_stack_mut(c) == IF refcnt[c] = 0 THEN Append(app_ctx_stack, c) ELSE app_ctx_stack
push_stack(c) == Append(app_ctx_stack, c)

AppContext_push(c) ==
    /\ Len(app_ctx_stack) < MaxDepth
    /\ refcnt[c] < MaxDepth
    /\ refcnt' = [refcnt EXCEPT ![c] = @ + 1]
    /\ app_ctx_stack' = push_stack(c)
    /\ opened' = IF nested THEN Append(opened, c) ELSE <<>>
    /\ UNCHANGED <<td_app_n, lastPop, nested, aborted>>
    /\ UNCHANGED <<firstVars, respVars, sessVars, pipeVars, reqVars, lazyVars>>

\* AppContext.pop(exc) and AppContext.__exit__ (which is pop(exc_value)).
\* amb is sys.exc_info()[1] at the call; raiseAt is the teardown function
\* that raises, if one does.
AppContext_pop(c, exc) ==
    /\ refcnt[c] - 1 >= 0 - MaxUnder
    /\ \E amb \in ExcOrNone, raiseAt \in 0..td_app_n :
        LET cnt  == refcnt[c] - 1
            runs == cnt <= 0
            eff  == IF exc = None THEN amb ELSE exc
            td   == IF runs THEN do_teardown_appcontext(td_app_n, eff, raiseAt)
                    ELSE [calls |-> <<>>, raised |-> FALSE]
            rv   == StackTop(app_ctx_stack)
            out  == IF td.raised THEN "TeardownError"
                    ELSE IF Popped(rv, c) THEN "ok" ELSE "AssertionError"
        IN  /\ (~runs => raiseAt = 0 /\ amb = None)
            /\ (exc # None => amb = None)
            /\ refcnt' = [refcnt EXCEPT ![c] = cnt]
            /\ app_ctx_stack' = IF td.raised THEN app_ctx_stack
                                ELSE StackPopped(app_ctx_stack)
            /\ lastPop' = [ctx |-> c, exc |-> exc, amb |-> amb, raiseAt |-> raiseAt,
                           wasTop |-> rv = c,
                           ranTeardown |-> runs, calls |-> td.calls,
                           outcome |-> out]
            /\ IF nested /\ opened # <<>> /\ Last(opened) = c
               THEN opened' = Front(opened) /\ nested' = TRUE
               ELSE opened' = <<>> /\ nested' = FALSE
            /\ aborted' = (aborted \/ out # "ok")
            /\ UNCHANGED td_app_n
    /\ UNCHANGED <<firstVars, respVars, sessVars, pipeVars, reqVars, lazyVars>>

\* Flask.teardown_appcontext: registers one more teardown function.
teardown_appcontext ==
    /\ last.op # "request"
    /\ td_app_n < MaxHooks /\ TotalReg < MaxReg
    /\ IF setupmethod_refuses
       THEN last' = Setup("AssertionError") /\ td_app_n' = td_app_n
       ELSE last' = Setup("ok") /\ td_app_n' = td_app_n + 1
    /\ UNCHANGED <<app_ctx_stack, refcnt, lastPop, opened, nested, aborted>>
    /\ UNCHANGED <<firstVars, respVars, sessVars, reqVars, lazyVars>>
    /\ UNCHANGED <<debug, trap_http_exceptions, hookTables, error_handler_spec, setupTables>>

\* The variables of the application-context stack, as constructed.
CtxIdle ==
    /\ app_ctx_stack = <<>>
    /\ refcnt = [c \in AppCtxs |-> 0]
    /\ td_app_n = 0
    /\ lastPop = NoPop
    /\ opened = <<>>
    /\ nested = TRUE
    /\ aborted = FALSE

\* ------------------------------------------------------------------------
\* app.py, Flask.try_trigger_before_first_request_functions, one statement
\* per step, for each calling thread.

\* Flask.before_first_method (the source's name of before_first_request),
\* a setupmethod: appends one function.
before_first_method ==
    /\ last.op # "request"
    /\ bf_n < MaxHooks /\ TotalReg < MaxReg
    /\ IF setupmethod_refuses
       THEN last' = Setup("AssertionError") /\ UNCHANGED bf_n
       ELSE last' = Setup("ok") /\ bf_n' = bf_n + 1
    /\ UNCHANGED <<got_first_request, before_request_lock, tpc, tidx, tret,
                   bf_calls, sets>>
    /\ UNCHANGED <<debug, trap_http_exceptions, hookTables, error_handler_spec, setupTables>>
    /\ UNCHANGED <<ctxVars, respVars, sessVars, reqVars, lazyVars>>

\* A thread handles a request: full_dispatch_request calls the trigger.
trigger_call(t) ==
    /\ tpc[t] = "idle"
    /\ tpc' = [tpc EXCEPT ![t] = "check"]
    /\ UNCHANGED <<got_first_request, before_request_lock, bf_n, tidx, tret,
                   bf_calls, sets>>
    /\ UNCHANGED <<ctxVars, respVars, sessVars, pipeVars, reqVars, lazyVars>>

\* Lines 565-566: the check made without the lock.
trigger_fast_check(t) ==
    /\ tpc[t] = "check"
    /\ IF got_first_request
       THEN tpc' = [tpc EXCEPT ![t] = "idle"] /\ tret' = [tret EXCEPT ![t] = "fast"]
       ELSE tpc' = [tpc EXCEPT ![t] = "acquire"] /\ tret' = tret
    /\ UNCHANGED <<got_first_request, before_request_lock, bf_n, tidx,
                   bf_calls, sets>>
    /\ UNCHANGED <<ctxVars, respVars, sessVars, pipeVars, reqVars, lazyVars>>

\* Line 567: with self._before_request_lock.
trigger_acquire(t) ==
    /\ tpc[t] = "acquire"
    /\ before_request_lock = None
    /\ before_request_lock' = t
    /\ tpc' = [tpc EXCEPT ![t] = "recheck"]
    /\ UNCHANGED <<got_first_request, bf_n, tidx, tret, bf_calls, sets>>
    /\ UNCHANGED <<ctxVars, respVars, sessVars, pipeVars, reqVars, lazyVars>>

\* The condition of line 568, read under the lock.
locked_recheck_mut == FALSE
locked_recheck == got_first_request

\* Lines 568-569: the check made again under the lock; returning leaves the
\* with-block, which releases the lock.
trigger_recheck(t) ==
    /\ tpc[t] = "recheck"
    /\ IF locked_recheck
       THEN /\ tpc' = [tpc EXCEPT ![t] = "idle"]
            /\ tret' = [tret EXCEPT ![t] = "recheck"]
            /\ before_request_lock' = None
       ELSE /\ tpc' = [tpc EXCEPT ![t] = "set"]
            /\ UNCHANGED <<tret, before_request_lock>>
    /\ UNCHANGED <<got_first_request, bf_n, tidx, bf_calls, sets>>
    /\ UNCHANGED <<ctxVars, respVars, sessVars, pipeVars, reqVars, lazyVars>>

\* Line 570: self._got_first_request = True.
trigger_set(t) ==
    /\ tpc[t] = "set"
    /\ got_first_request' = TRUE
    /\ sets' = sets + 1
    /\ tpc' = [tpc EXCEPT ![t] = "funcs"]
    /\ tidx' = [tidx EXCEPT ![t] = 1]
    /\ UNCHANGED <<before_request_lock, bf_n, tret, bf_calls>>
    /\ UNCHANGED <<ctxVars, respVars, sessVars, pipeVars, reqVars, lazyVars>>

\* Lines 571-572: the next function is called; it returns, or it raises and
\* the exception leaves the with-block (releasing the lock) and the call.
trigger_func(t) ==
    /\ tpc[t] = "funcs"
    /\ tidx[t] <= bf_n
    /\ bf_calls[tidx[t]] < MaxCalls
    /\ bf_calls' = [bf_calls EXCEPT ![tidx[t]] = @ + 1]
    /\ \E raises \in BOOLEAN :
        IF raises
        THEN /\ tpc' = [tpc EXCEPT ![t] = "idle"]
             /\ tret' = [tret EXCEPT ![t] = "raised"]
             /\ tidx' = [tidx EXCEPT ![t] = 0]
             /\ before_request_lock' = None
        ELSE /\ tidx' = [tidx EXCEPT ![t] = @ + 1]
             /\ UNCHANGED <<tpc, tret, before_request_lock>>
    /\ UNCHANGED <<got_first_request, bf_n, sets>>
    /\ UNCHANGED <<ctxVars, respVars, sessVars, pipeVars, reqVars, lazyVars>>

\* The loop is over: the with-block ends, the lock is released, the call
\* returns.
trigger_release(t) ==
    /\ tpc[t] = "funcs"
    /\ tidx[t] > bf_n
    /\ before_request_lock' = None
    /\ tpc' = [tpc EXCEPT ![t] = "idle"]
    /\ tret' = [tret EXCEPT ![t] = "ran"]
    /\ tidx' = [tidx EXCEPT ![t] = 0]
    /\ UNCHANGED <<got_first_request, bf_n, bf_calls, sets>>
    /\ UNCHANGED <<ctxVars, respVars, sessVars, pipeVars, reqVars, lazyVars>>

\* The trigger's variables, as constructed (Flask.__init__, lines 156,
\* 174, 175), with no thread in the call.
FirstIdle ==
    /\ got_first_request = FALSE
    /\ before_request_lock = None
    /\ bf_n = 0
    /\ tpc = [t \in Threads |-> "idle"]
    /\ tidx = [t \in Threads |-> 0]
    /\ tret = [t \in Threads |-> "none"]
    /\ bf_calls = [i \in 1..MaxHooks |-> 0]
    /\ sets = 0

\* ------------------------------------------------------------------------
\* app.py, Flask.make_response.  Python values are records tagged by type.

PyNone == [t |-> "None"]
PyStr(x) == [t |-> "str", v |-> x]
PyInt(n) == [t |-> "int", v |-> n]
PyHeaders(h) == [t |-> "headers", v |-> h]      \* a dict or list of pairs
PyTuple(items) == [t |-> "tuple", v |-> items]
PyWsgi == [t |-> "wsgi"]                         \* a WSGI callable, not a Response

\* werkzeug's status lines, for the codes that occur here.
StatusLine(code) ==
    CASE code = 200 -> "200 OK"
      [] code = 201 -> "201 CREATED"
      [] code = 301 -> "301 MOVED PERMANENTLY"
      [] code = 404 -> "404 NOT FOUND"
      [] OTHER      -> "0 UNKNOWN"
StatusCode(line) ==
    CASE line = "200 OK" -> 200
      [] line = "201 CREATED" -> 201
      [] line = "301 MOVED PERMANENTLY" -> 301
      [] line = "404 NOT FOUND" -> 404
      [] OTHER -> 0

\* len(body) as the Content-Length header gives it.
BodyLength(body) ==
    CASE body = "body" -> "4"
      [] body = "" -> "0"
      [] OTHER -> "?"

\* The headers the construction of a response from a text body sets.
BodyHeaders(body) ==
    << <<"Content-Type", "text/html; charset=utf-8">>,
       <<"Content-Length", BodyLength(body)>> >>

\* A response object (response_class instance).
PyResponse(body, code, headers) ==
    [t |-> "response", body |-> body, status_code |-> code,
     status |-> StatusLine(code), headers |-> headers]

\* rv.status = status / rv.status_code = status (lines 609-612); each
\* attribute of a werkzeug response determines the other.
set_status(resp, status) ==
    IF status.t = "str"
    THEN [resp EXCEPT !.status = status.v, !.status_code = StatusCode(status.v)]
    ELSE [resp EXCEPT !.status_code = status.v, !.status = StatusLine(status.v)]

\* response_class(rv, headers=headers, status=status), line 603: the
\* supplied headers, then those of the body; the supplied status or 200.
response_class(body, headers, status) ==
    LET given == IF headers = PyNone THEN <<>> ELSE headers.v
        base == PyResponse(body, 200, given \o BodyHeaders(body))
    IN  IF status = PyNone THEN base ELSE set_status(base, status)

\* Lines 602-604: a text body becomes a response that takes the status and
\* the headers, and both are cleared so that lines 608-614 do not apply
\* them again.
text_response_mut(body, status, headers) ==
    [rv |-> response_class(body.v, headers, status),
     status |-> status, headers |-> headers]
text_response(body, status, headers) ==
    [rv |-> response_class(body.v, headers, status),
     status |-> PyNone, headers |-> PyNone]

\* Line 598: 'if rv is None'.
body_missing_mut(rv) == FALSE
body_missing(rv) == rv = PyNone

\* Lines 594-596: a tuple is padded with None to (rv, status, headers).
unpack_rv(rv) ==
    IF rv.t = "tuple"
    THEN LET n == Len(rv.v)
         IN  [rv |-> IF n >= 1 THEN rv.v[1] ELSE PyNone,
              status |-> IF n >= 2 THEN rv.v[2] ELSE PyNone,
              headers |-> IF n >= 3 THEN rv.v[3] ELSE PyNone]
    ELSE [rv |-> rv, status |-> PyNone, headers |-> PyNone]

\* response_class.force_type(rv, request.environ), line 606: the object is
\* run as a WSGI application and its output is the response; an HTTP
\* exception renders its error page with its status code.
force_type(rv) ==
    IF rv.t = "exc" THEN PyResponse("error page", rv.code, <<>>)
    ELSE PyResponse("wsgi output", 404, <<>>)

\* Flask.make_response: the response, or the exception raised.
make_response(rv0) ==
    LET u == unpack_rv(rv0)
    IN  IF body_missing(u.rv)
        THEN [kind |-> "raise", exc |-> "ValueError"]
        ELSE
        LET made == IF u.rv.t = "response"
                    THEN [rv |-> u.rv, status |-> u.status, headers |-> u.headers]
                    ELSE IF u.rv.t = "str"
                    THEN text_response(u.rv, u.status, u.headers)
                    ELSE [rv |-> force_type(u.rv),
                          status |-> u.status, headers |-> u.headers]
            r1 == IF made.status # PyNone THEN set_status(made.rv, made.status)
                  ELSE made.rv
            r2 == IF made.headers # PyNone /\ made.headers.v # <<>>
                  THEN [r1 EXCEPT !.headers = @ \o made.headers.v]
                  ELSE r1
        IN  [kind |-> "ok", resp |-> r2]

\* The values a view function returns in the model.
Bodies == {PyNone, PyStr("body"), PyStr(""), PyWsgi,
           PyResponse("made by view", 200, << <<"X-View", "v">> >>)}
Statuses == {PyNone, PyInt(201), PyStr("404 NOT FOUND")}
HeaderArgs == {PyNone, PyHeaders(<<>>), PyHeaders(<< <<"X-Test", "1">> >>),
               PyHeaders(<< <<"X-Test", "1">>, <<"X-Other", "2">> >>)}
ViewReturns ==
    Bodies
    \cup {PyTuple(<<>>)}
    \cup {PyTuple(<<b>>) : b \in Bodies}
    \cup {PyTuple(<<b, st>>) : b \in Bodies, st \in Statuses}
    \cup {PyTuple(<<b, st, h>>) : b \in Bodies, st \in Statuses, h \in HeaderArgs}

MrPending == [kind |-> "pending"]

\* full_dispatch_request, line 559: make_response is called on the value.
call_make_response ==
    /\ mr_out = MrPending
    /\ mr_out' = make_response(mr_in)
    /\ UNCHANGED mr_in
    /\ UNCHANGED <<ctxVars, firstVars, sessVars, pipeVars, reqVars, lazyVars>>

\* The next view return value arrives.
next_view_return ==
    /\ mr_out # MrPending
    /\ mr_in' \in ViewReturns
    /\ mr_out' = MrPending
    /\ UNCHANGED <<ctxVars, firstVars, sessVars, pipeVars, reqVars, lazyVars>>

RespIdle == mr_in = PyNone /\ mr_out = MrPending

\* ------------------------------------------------------------------------
\* sessions.py.  A session's content is what its keys hold: the key
\* '_permanent' (read by the permanent property), the key '_permantent'
\* (written by the permanent setter, line 34) and one application key.

KeyStates == {"absent", "true", "false"}
EmptyContent == [perm |-> "absent", permantent |-> "absent", data |-> FALSE]
Contents == [perm : KeyStates, permantent : KeyStates, data : BOOLEAN]

\* SecureCookieSession.__init__ (lines 98-102): the content, not modified.
session_class(content) == [content |-> content, modified |-> FALSE]

\* 'not session': the mapping is empty.
session_empty(sess) == sess.content = EmptyContent

\* SessionMixin._get_permanent: self.get('_permanent', False).
permanent(sess) == sess.content.perm = "true"

\* SessionInterface.should_set_cookie.
should_set_cookie_mut(sess, save_each) == sess.modified \/ save_each
should_set_cookie_unmod(sess, save_each) == save_each /\ permanent(sess)
should_set_cookie(sess, save_each) ==
    IF sess.modified THEN TRUE ELSE save_each /\ permanent(sess)

\* SessionInterface.get_expiration_time: a time for a permanent session.
get_expiration_time(sess) == permanent(sess)

\* SecureCookieSessionInterface.save_session: the Set-Cookie header it puts
\* on the response ("none": no header), and the cookie the client then has.
save_session_header(sess, save_each) ==
    IF session_empty(sess)
    THEN IF sess.modified THEN "delete" ELSE "none"
    ELSE IF ~should_set_cookie(sess, save_each) THEN "none" ELSE "set"

NoCookie == [held |-> FALSE, content |-> EmptyContent]

NoSave == [done |-> FALSE, sess |-> session_class(EmptyContent), refresh |-> TRUE,
           header |-> "none", expires |-> FALSE]

save_session ==
    LET h == save_session_header(session, refresh_each)
    IN  /\ lastSave' = [done |-> TRUE, sess |-> session, refresh |-> refresh_each,
                        header |-> h,
                        expires |-> h = "set" /\ get_expiration_time(session)]
        /\ cookie' = CASE h = "set" -> [held |-> TRUE, content |-> session.content]
                        [] h = "delete" -> NoCookie
                        [] OTHER -> cookie
        /\ UNCHANGED <<session, refresh_each>>
        /\ UNCHANGED <<ctxVars, firstVars, respVars, pipeVars, reqVars, lazyVars>>

\* SecureCookieSessionInterface.open_session, for the next request of the
\* client: an empty session without a cookie, else the cookie's content.
open_session ==
    /\ lastSave.done
    /\ session' = IF ~cookie.held THEN session_class(EmptyContent)
                  ELSE session_class(cookie.content)
    /\ lastSave' = NoSave
    /\ UNCHANGED <<refresh_each, cookie>>
    /\ UNCHANGED <<ctxVars, firstVars, respVars, pipeVars, reqVars, lazyVars>>

\* session[key] = value, del session[key]: CallbackDict calls on_update,
\* which sets modified (lines 99-101).
session_setitem ==
    /\ ~lastSave.done
    /\ \E c \in Contents :
        /\ c.permantent = session.content.permantent
        /\ c # session.content
        /\ session' = [content |-> c, modified |-> TRUE]
    /\ UNCHANGED <<refresh_each, cookie, lastSave>>
    /\ UNCHANGED <<ctxVars, firstVars, respVars, pipeVars, reqVars, lazyVars>>

\* SessionMixin._set_permanent: self['_permantent'] = bool(value).
set_permanent ==
    /\ ~lastSave.done
    /\ \E v \in {"true", "false"} :
        session' = [content |-> [session.content EXCEPT !.permantent = v],
                    modified |-> TRUE]
    /\ UNCHANGED <<refresh_each, cookie, lastSave>>
    /\ UNCHANGED <<ctxVars, firstVars, respVars, pipeVars, reqVars, lazyVars>>

\* session.modified = True, assigned by application code.
set_modified ==
    /\ ~lastSave.done
    /\ session' = [session EXCEPT !.modified = TRUE]
    /\ UNCHANGED <<refresh_each, cookie, lastSave>>
    /\ UNCHANGED <<ctxVars, firstVars, respVars, pipeVars, reqVars, lazyVars>>

\* app.config['SESSION_REFRESH_EACH_REQUEST'] = value.
config_refresh_each ==
    /\ ~lastSave.done
    /\ refresh_each' = ~refresh_each
    /\ UNCHANGED <<session, cookie, lastSave>>
    /\ UNCHANGED <<ctxVars, firstVars, respVars, pipeVars, reqVars, lazyVars>>

\* The first request of a client without a cookie, under default_config
\* (SESSION_REFRESH_EACH_REQUEST is True, app.py line 111).
SessIdle ==
    /\ session = session_class(EmptyContent)
    /\ refresh_each = TRUE
    /\ cookie = NoCookie
    /\ lastSave = NoSave

\* ------------------------------------------------------------------------
\* app.py, registration of hooks and error handlers.

\* Flask.default_config (lines 95, 113) and Flask.__init__ (lines 151-161):
\* the configuration flags at their defaults, empty tables, no call made.
PipeIdle ==
    /\ debug = FALSE
    /\ trap_http_exceptions = FALSE
    /\ before_request_funcs = [s \in Scopes |-> 0]
    /\ after_request_funcs = [s \in Scopes |-> 0]
    /\ teardown_request_funcs = [s \in Scopes |-> 0]
    /\ url_value_preprocessors = [s \in Scopes |-> 0]
    /\ error_handler_spec = <<>>
    /\ blueprints = [n \in BlueprintNames |-> None]
    /\ url_map = 0
    /\ view_functions = [e \in Endpoints |-> None]
    /\ error_handler_codes = [k \in Scopes |-> {}]
    /\ error_handler_spec_bp = <<>>
    /\ last = Idle

HookKinds == {"before_request", "after_request", "teardown_request",
              "url_value_preprocessor"}

\* table.setdefault(scope, []).append(f), for the table of the given kind.
append_hook(kind, scope) ==
    /\ before_request_funcs' =
        IF kind = "before_request"
        THEN [before_request_funcs EXCEPT ![scope] = @ + 1] ELSE before_request_funcs
    /\ after_request_funcs' =
        IF kind = "after_request"
        THEN [after_request_funcs EXCEPT ![scope] = @ + 1] ELSE after_request_funcs
    /\ teardown_request_funcs' =
        IF kind = "teardown_request"
        THEN [teardown_request_funcs EXCEPT ![scope] = @ + 1] ELSE teardown_request_funcs
    /\ url_value_preprocessors' =
        IF kind = "url_value_preprocessor"
        THEN [url_value_preprocessors EXCEPT ![scope] = @ + 1] ELSE url_value_preprocessors

\* len(table[scope]) for the table of the given kind.
hook_count(kind, scope) ==
    CASE kind = "before_request" -> before_request_funcs[scope]
      [] kind = "after_request" -> after_request_funcs[scope]
      [] kind = "teardown_request" -> teardown_request_funcs[scope]
      [] kind = "url_value_preprocessor" -> url_value_preprocessors[scope]

\* A hook registration wrapped by setupmethod.
register_hook(kind, scope) ==
    /\ last.op # "request"
    /\ hook_count(kind, scope) < MaxHooks /\ TotalReg < MaxReg
    /\ IF setupmethod_refuses
       THEN last' = Setup("AssertionError") /\ UNCHANGED hookTables
       ELSE last' = Setup("ok") /\ append_hook(kind, scope)
    /\ UNCHANGED <<debug, trap_http_exceptions, error_handler_spec, setupTables>>
    /\ UNCHANGED <<ctxVars, firstVars, respVars, sessVars, reqVars, lazyVars>>

\* Flask.before_request, after_request, teardown_request,
\* url_value_preprocessor: the application's scope is the key None.
before_request == register_hook("before_request", None)
after_request == register_hook("after_request", None)
teardown_request == register_hook("teardown_request", None)
url_value_preprocessor == register_hook("url_value_preprocessor", None)

\* A blueprint's hook reaches the application's table under the blueprint's
\* name when the blueprint is registered (register_blueprint, a setupmethod,
\* lines 315-327; the blueprint's side of it is not in the source files).
blueprint_hook(kind) == register_hook(kind, "bp")

\* The exception classes of the model: Sub derives from Base; NotFound and
\* RequestRedirect are werkzeug HTTP exceptions; SystemExit derives from
\* BaseException only.
PyClass(c) == [t |-> "class", v |-> c]
HandlerArgs == {PyClass("Base"), PyClass("Sub"), PyClass("Other"), PyInt(404), PyInt(500)}

\* Flask.errorhandler -> _register_error_handler(None, code_or_exception, f)
\* (both setupmethods).  A class is appended to the typed handlers (lines
\* 397-398); an integer code is stored through self.error_hander_spec (line
\* 395), an attribute the application does not have.
errorhandler(code_or_exception) ==
    /\ last.op # "request"
    /\ Len(error_handler_spec) < MaxHooks /\ TotalReg < MaxReg
    /\ IF setupmethod_refuses
       THEN last' = Setup("AssertionError") /\ UNCHANGED error_handler_spec
       ELSE IF code_or_exception.t = "int"
       THEN last' = Setup("AttributeError") /\ UNCHANGED error_handler_spec
       ELSE /\ last' = Setup("ok")
            /\ error_handler_spec' = Append(error_handler_spec, code_or_exception.v)
    /\ UNCHANGED <<debug, trap_http_exceptions, hookTables, setupTables>>
    /\ UNCHANGED <<ctxVars, firstVars, respVars, sessVars, reqVars, lazyVars>>

\* ------------------------------------------------------------------------
\* app.py, Flask.register_blueprint.

\* The Blueprint objects of the model, all named "bp".  Before it was
\* registered, one before-request function was recorded on b1 and none on
\* b2.
Blueprints == {"b1", "b2"}
blueprint_name(b) == "bp"
recorded_before_request(b) == IF b = "b1" THEN 1 ELSE 0

\* 'self.blueprints[blueprint.name] is blueprint' (line 319).
same_blueprint_mut(a, b) == TRUE
same_blueprint(a, b) == a = b

\* What 'last' holds after register_blueprint.
RegisterBlueprint(b, outcome, first) ==
    [op |-> "register_blueprint", blueprint |-> b, outcome |-> outcome,
     first_registration |-> first]

\* Blueprint.register(app, options, first_registration): what was recorded
\* on the blueprint is applied to the application on its first
\* registration, and a later registration of the same object changes
\* nothing.
Blueprint_register(b, first_registration) ==
    IF first_registration /\ recorded_before_request(b) > 0
    THEN append_hook("before_request", blueprint_name(b))
    ELSE UNCHANGED hookTables

\* Flask.register_blueprint, a setupmethod.
register_blueprint(b) ==
    /\ last.op # "request"
    /\ LET name == blueprint_name(b) IN
       IF setupmethod_refuses
       THEN /\ last' = RegisterBlueprint(b, "AssertionError", FALSE)
            /\ UNCHANGED <<blueprints, hookTables>>
       ELSE IF blueprints[name] # None
       THEN IF same_blueprint(blueprints[name], b)
            THEN /\ last' = RegisterBlueprint(b, "ok", FALSE)
                 /\ UNCHANGED blueprints
                 /\ Blueprint_register(b, FALSE)
            ELSE \* the assertion of lines 319-323
                 /\ last' = RegisterBlueprint(b, "NameCollision", FALSE)
                 /\ UNCHANGED <<blueprints, hookTables>>
       ELSE /\ TotalReg + 1 + recorded_before_request(b) <= MaxReg
            /\ before_request_funcs[name] + recorded_before_request(b) <= MaxHooks
            /\ last' = RegisterBlueprint(b, "ok", TRUE)
            /\ blueprints' = [blueprints EXCEPT ![name] = b]
            /\ Blueprint_register(b, TRUE)
    /\ UNCHANGED <<debug, trap_http_exceptions, error_handler_spec>>
    /\ UNCHANGED <<url_map, view_functions, error_handler_codes, error_handler_spec_bp>>
    /\ UNCHANGED <<ctxVars, firstVars, respVars, sessVars, reqVars, lazyVars>>

\* ------------------------------------------------------------------------
\* app.py, the other setup operations and Flask.run.

\* The view functions of the model; both are functions named "index".
ViewFuncs == {"f", "g"}
view_func_name(f) == "index"

\* helpers.py, _endpoint_from_view_func: the function's name, and an
\* assertion that there is a function.
endpoint_from_view_func(view_func) ==
    IF view_func = None THEN [ok |-> FALSE, v |-> "AssertionError"]
    ELSE [ok |-> TRUE, v |-> view_func_name(view_func)]

\* The body of Flask.add_url_rule with the default methods: the rule is
\* added to the map (line 355) before the check of the view function
\* (lines 356-361).
add_url_rule_body(endpoint, view_func) ==
    LET ep == IF endpoint = None THEN endpoint_from_view_func(view_func)
              ELSE [ok |-> TRUE, v |-> endpoint] IN
    IF ~ep.ok
    THEN last' = Setup(ep.v) /\ UNCHANGED <<url_map, view_functions>>
    ELSE /\ url_map' = url_map + 1
         /\ IF view_func = None
            THEN last' = Setup("ok") /\ UNCHANGED view_functions
            ELSE IF view_functions[ep.v] # None /\ view_functions[ep.v] # view_func
            THEN last' = Setup("AssertionError") /\ UNCHANGED view_functions
            ELSE /\ last' = Setup("ok")
                 /\ view_functions' = [view_functions EXCEPT ![ep.v] = view_func]

\* Flask.add_url_rule, a setupmethod.
add_url_rule(endpoint, view_func) ==
    /\ last.op # "request"
    /\ TotalReg < MaxReg
    /\ IF setupmethod_refuses
       THEN last' = Setup("AssertionError") /\ UNCHANGED <<url_map, view_functions>>
       ELSE add_url_rule_body(endpoint, view_func)
    /\ UNCHANGED <<debug, trap_http_exceptions, hookTables, error_handler_spec>>
    /\ UNCHANGED <<blueprints, error_handler_codes, error_handler_spec_bp>>
    /\ UNCHANGED <<ctxVars, firstVars, respVars, sessVars, reqVars, lazyVars>>

\* Flask.route(rule, **options)(f): not wrapped itself, the decorator calls
\* add_url_rule with the endpoint option or None.
route(endpoint, f) == add_url_rule(endpoint, f)

\* Flask.endpoint(endpoint)(f), a setupmethod: the view function is stored
\* without a check of the one it replaces.
endpoint(ep, f) ==
    /\ last.op # "request"
    /\ TotalReg < MaxReg
    /\ IF setupmethod_refuses
       THEN last' = Setup("AssertionError") /\ UNCHANGED view_functions
       ELSE /\ last' = Setup("ok")
            /\ view_functions' = [view_functions EXCEPT ![ep] = f]
    /\ UNCHANGED <<debug, trap_http_exceptions, hookTables, error_handler_spec>>
    /\ UNCHANGED <<blueprints, url_map, error_handler_codes, error_handler_spec_bp>>
    /\ UNCHANGED <<ctxVars, firstVars, respVars, sessVars, reqVars, lazyVars>>

\* Flask.register_error_hander, not a setupmethod: it calls
\* self._register_error_hander, an attribute the application does not have.
register_error_hander(code_or_exception) ==
    /\ last.op # "request"
    /\ last' = Setup("AttributeError")
    /\ UNCHANGED <<debug, trap_http_exceptions, hookTables, error_handler_spec, setupTables>>
    /\ UNCHANGED <<ctxVars, firstVars, respVars, sessVars, reqVars, lazyVars>>

\* An instance of an HTTP exception, as an argument of a registration.
PyHTTPException(code) == [t |-> "http", v |-> code]
RegisterArgs == HandlerArgs \cup {PyHTTPException(404), PyHTTPException(500)}

\* 'code_or_exception != 500 or key is None' (line 392).
assert_500_scope_mut(code, key) == TRUE
assert_500_scope(code, key) == code # 500 \/ key = None

\* What 'last' holds after _register_error_handler.
RegisterHandler(key, code_or_exception, outcome) ==
    [op |-> "register_error_handler", key |-> key, arg |-> code_or_exception,
     outcome |-> outcome]

\* Flask._register_error_handler(key, code_or_exception, f), a setupmethod.
\* Line 395 reads self.error_hander_spec, an attribute the application does
\* not have, so no handler is ever stored under an integer key.
register_error_handler(key, code_or_exception) ==
    /\ last.op # "request"
    /\ TotalReg < MaxReg
    /\ LET coe == IF code_or_exception.t = "http"
                  THEN PyInt(code_or_exception.v) ELSE code_or_exception IN
       IF setupmethod_refuses
       THEN /\ last' = RegisterHandler(key, code_or_exception, "AssertionError")
            /\ UNCHANGED <<error_handler_spec, error_handler_spec_bp>>
       ELSE IF coe.t = "int"
       THEN /\ last' = RegisterHandler(key, code_or_exception,
                    IF assert_500_scope(coe.v, key)
                    THEN "AttributeError" ELSE "AssertionError")
            /\ UNCHANGED <<error_handler_spec, error_handler_spec_bp>>
       ELSE /\ last' = RegisterHandler(key, code_or_exception, "ok")
            /\ IF key = None
               THEN /\ Len(error_handler_spec) < MaxHooks
                    /\ error_handler_spec' = Append(error_handler_spec, coe.v)
                    /\ UNCHANGED error_handler_spec_bp
               ELSE /\ Len(error_handler_spec_bp) < MaxHooks
                    /\ error_handler_spec_bp' = Append(error_handler_spec_bp, coe.v)
                    /\ UNCHANGED error_handler_spec
    /\ UNCHANGED <<debug, trap_http_exceptions, hookTables>>
    /\ UNCHANGED <<blueprints, url_map, view_functions, error_handler_codes>>
    /\ UNCHANGED <<ctxVars, firstVars, respVars, sessVars, reqVars, lazyVars>>

\* The debug argument of Flask.run.
RunDebugArgs == {None, "False", "True"}

\* Flask.run from its call to its return: the debug argument, when given,
\* sets app.debug (lines 291-292), and when the server has ended the
\* finally block resets the first-request flag (line 298).  The requests
\* the server handled are wsgi_app calls; last.reset tells whether the flag
\* was set when the finally block ran.
run(dbg) ==
    /\ last.op # "request"
    /\ debug' = IF dbg = None THEN debug ELSE (dbg = "True")
    /\ got_first_request' = FALSE
    /\ last' = [op |-> "run", reset |-> got_first_request]
    /\ UNCHANGED <<trap_http_exceptions, hookTables, error_handler_spec, setupTables>>
    /\ UNCHANGED <<before_request_lock, bf_n, tpc, tidx, tret, bf_calls, sets>>
    /\ UNCHANGED <<ctxVars, respVars, sessVars, reqVars, lazyVars>>

\* ------------------------------------------------------------------------
\* app.py, the dispatch pipeline.  One call of wsgi_app is computed as the
\* sequence of its events (the calls it makes, in order), together with the
\* value it returns or the exception that leaves it.

\* A registered function: the scope it is registered in ("this": with
\* after_this_request, on the request context) and its position there.
Fn(scope, i) == [scope |-> scope, idx |-> i]
NoFn == Fn(None, 0)
FnName(f) == f.scope \o ToString(f.idx)

\* An exception object: its class, its status code (0: it has none) and
\* the place that raised it.
HttpCode(cls) ==
    CASE cls = "NotFound" -> 404
      [] cls = "RequestRedirect" -> 301
      [] OTHER -> 0
Exc(cls, origin) == [t |-> "exc", cls |-> cls, code |-> HttpCode(cls), origin |-> origin]
NoExc == Exc("none", "none")

\* isinstance(e, HTTPException) and isinstance(e, Exception).
is_http_exception(e) == e.cls \in {"NotFound", "RequestRedirect", "HTTPException"}
is_Exception(e) == e.cls # "SystemExit"

\* What a call that raised leaves in place of a return value.
PyRaise == [t |-> "raise"]

\* An event: the call, the function called, the exception it is about, the
\* response or value given and the one returned.
Ev(ev, fn, exc, rin, rout) ==
    [ev |-> ev, fn |-> fn, exc |-> exc, rin |-> rin, rout |-> rout]

\* The result of a part of the pipeline: its events and the value returned
\* or the exception raised.
Ok(tr, v) == [trace |-> tr, kind |-> "ok", val |-> v]
Raise(tr, e) == [trace |-> tr, kind |-> "raise", val |-> e]
After(tr, r) == [r EXCEPT !.trace = tr \o @]

\* A loop over n functions of which number 'at' ends it (0: none does)
\* makes this many calls.
CallsUpTo(n, at) == IF at \in 1..n THEN at ELSE n

\* table[scope], and Python's reversed().
ScopeFuncs(tab, scope) == [i \in 1..tab[scope] |-> Fn(scope, i)]
reversed_mut(s) == s
reversed(s) == [i \in 1..Len(s) |-> s[Len(s) + 1 - i]]

\* funcs = table.get(None, ()); if bp is not None and bp in table:
\* funcs = chain(funcs, table[bp])  (lines 651-653, 657-659).
chain_scopes_mut(tab, bp) ==
    (IF bp # None /\ tab[bp] > 0 THEN ScopeFuncs(tab, bp) ELSE <<>>)
    \o ScopeFuncs(tab, None)
chain_scopes(tab, bp) ==
    ScopeFuncs(tab, None)
    \o (IF bp # None /\ tab[bp] > 0 THEN ScopeFuncs(tab, bp) ELSE <<>>)

\* Flask.try_trigger_before_first_request_functions, called by the one
\* thread that handles the request: the functions run when the flag is not
\* set; firstRaise is the function that raises (0: none).
try_trigger_before_first_request_functions(firstRaise) ==
    IF got_first_request THEN Ok(<<>>, PyNone)
    ELSE
    LET n == CallsUpTo(bf_n, firstRaise)
        evs == [i \in 1..n |->
                  Ev("before_first_request", Fn(None, i), NoExc, PyNone,
                     IF i = firstRaise THEN PyRaise ELSE PyNone)]
    IN  IF firstRaise \in 1..bf_n
        THEN Raise(evs, Exc("HookError", "before_first_request"))
        ELSE Ok(evs, PyNone)

\* What a before-request function returns when it answers the request.
HookReturn == PyStr("stopped")

\* Flask.preprocess_request.  rq.preRaise is the URL value preprocessor that
\* raises, rq.befAt the before-request function that ends the loop, by
\* returning a value or by raising (rq.befKind).
preprocess_request(rq) ==
    LET pre == chain_scopes(url_value_preprocessors, rq.bp)
        bef == chain_scopes(before_request_funcs, rq.bp)
        np  == CallsUpTo(Len(pre), rq.preRaise)
        preEv == [i \in 1..np |->
                    Ev("url_value_preprocessor", pre[i], NoExc, PyNone,
                       IF i = rq.preRaise THEN PyRaise ELSE PyNone)]
        nb  == CallsUpTo(Len(bef), rq.befAt)
        befEv == [i \in 1..nb |->
                    Ev("before_request", bef[i], NoExc, PyNone,
                       IF i # rq.befAt THEN PyNone
                       ELSE IF rq.befKind = "raise" THEN PyRaise ELSE HookReturn)]
    IN  IF rq.preRaise \in 1..Len(pre)
        THEN Raise(preEv, Exc("HookError", "url_value_preprocessor"))
        ELSE IF rq.befAt \in 1..Len(bef)
        THEN IF rq.befKind = "raise"
             THEN Raise(preEv \o befEv, Exc("HookError", "before_request"))
             ELSE Ok(preEv \o befEv, HookReturn)
        ELSE Ok(preEv \o befEv, PyNone)

\* url_adapter.match(return_rule=True) for the request: the rule matched
\* and the view arguments, or the routing exception raised.
url_adapter_match(rq) ==
    IF rq.route = "match"
    THEN [kind |-> "ok", url_rule |-> "rule", view_args |-> "args"]
    ELSE [kind |-> "raise", exc |-> Exc(rq.route, "routing")]

\* RequestContext.match_request, called by __init__, given what
\* url_adapter.match did: the attributes of the request afterwards (they
\* are None on the class) and whether an exception left the call.
match_request_mut(m) ==
    [raised |-> FALSE, routing_exception |-> NoExc,
     url_rule |-> None, view_args |-> None]
match_request(m) ==
    IF m.kind = "ok"
    THEN [raised |-> FALSE, routing_exception |-> NoExc,
          url_rule |-> m.url_rule, view_args |-> m.view_args]
    ELSE [raised |-> ~is_http_exception(m.exc),
          routing_exception |-> IF is_http_exception(m.exc) THEN m.exc ELSE NoExc,
          url_rule |-> None, view_args |-> None]

\* Flask.raise_routing_exception: the exception it raises.
raise_routing_exception(rq) ==
    IF ~debug \/ rq.route # "RequestRedirect" \/ rq.method \in {"GET", "HEAD", "OPTIONS"}
    THEN Exc(rq.route, "routing")
    ELSE Exc("FormDataRoutingRedirect", "routing")

\* Flask.make_default_options_response.
make_default_options_response == PyResponse("", 200, << <<"Allow", "GET, HEAD, OPTIONS">> >>)

\* The view function: rq.view is what it does (it returns text, returns
\* None, or raises an exception of the class named).
view_function(rq) ==
    CASE rq.view = "text" -> Ok(<<Ev("view", NoFn, NoExc, PyNone, PyStr("body"))>>, PyStr("body"))
      [] rq.view = "none" -> Ok(<<Ev("view", NoFn, NoExc, PyNone, PyNone)>>, PyNone)
      [] OTHER -> Raise(<<Ev("view", NoFn, Exc(rq.view, "view"), PyNone, PyRaise)>>,
                        Exc(rq.view, "view"))

\* Flask.dispatch_request.  Every rule provides automatic OPTIONS (the
\* default of add_url_rule, lines 344-347).
dispatch_request(rq) ==
    LET called == <<Ev("dispatch_request", NoFn, NoExc, PyNone, PyNone)>>
    IN  IF match_request(url_adapter_match(rq)).routing_exception # NoExc
        THEN LET e == raise_routing_exception(rq)
             IN  Raise(called \o <<Ev("raise_routing_exception", NoFn, e, PyNone, PyRaise)>>, e)
        ELSE IF rq.method = "OPTIONS"
        THEN Ok(called, make_default_options_response)
        ELSE After(called, view_function(rq))

\* Flask.trap_http_exception.  config['TRAP_BAD_REQUEST_ERRORS'] has its
\* default, False.
TRAP_BAD_REQUEST_ERRORS == FALSE
trap_http_exception(e) ==
    IF trap_http_exceptions THEN TRUE
    ELSE IF TRAP_BAD_REQUEST_ERRORS THEN e.cls = "BadRequest"
    ELSE FALSE

\* Line 476: 'handlers and e.code in handlers', for the table of the
\* request's blueprint.
blueprint_has_handler_mut(handlers, code) == FALSE
blueprint_has_handler(handlers, code) == handlers # {} /\ code \in handlers

\* What a handler registered for a status code returns.
HandlerValue(scope, code) == PyStr("handled")

\* Flask.handle_http_exception for a request of the blueprint bp (None: of
\* the application).  The registration methods store no handler under a
\* status code (line 395), so the tables hold one only when it was put
\* into error_handler_spec directly.
handle_http_exception_mut(e, bp) ==
    Raise(<<Ev("handle_http_exception", NoFn, e, PyNone, e)>>, e)
handle_http_exception(e, bp) ==
    LET scope == IF blueprint_has_handler(error_handler_codes[bp], e.code)
                 THEN bp ELSE None
    IN  IF e.code = 0 \/ e.code \notin error_handler_codes[scope]
        THEN Ok(<<Ev("handle_http_exception", NoFn, e, PyNone, e)>>, e)
        ELSE Ok(<<Ev("error_handler", Fn(scope, e.code), e, PyNone,
                     HandlerValue(scope, e.code)),
                  Ev("handle_http_exception", NoFn, e, PyNone,
                     HandlerValue(scope, e.code))>>,
                HandlerValue(scope, e.code))

\* Flask.handle_user_exception.  For an exception that is not an untrapped
\* HTTP exception, line 502 reads self.error_handler, an attribute the
\* application does not have: AttributeError is raised before any typed
\* handler is looked at.
handle_user_exception(e, bp) ==
    IF is_http_exception(e) /\ ~trap_http_exception(e)
    THEN After(<<Ev("handle_user_exception", NoFn, e, PyNone, PyNone)>>,
               handle_http_exception(e, bp))
    ELSE Raise(<<Ev("handle_user_exception", NoFn, e, PyNone, PyRaise)>>,
               Exc("AttributeError", "handle_user_exception"))

\* The request's session (ctx.session): the null session, or a cookie
\* session.
NullSession == [null |-> TRUE, sess |-> session_class(EmptyContent)]
CookieSession(sess) == [null |-> FALSE, sess |-> sess]
is_null_session_mut(obj) == FALSE
is_null_session(obj) == obj.null
SessionInputs ==
    {NullSession, CookieSession(session_class(EmptyContent)),
     CookieSession([content |-> [EmptyContent EXCEPT !.data = TRUE], modified |-> TRUE])}

\* Flask.save_session -> session_interface.save_session: the response with
\* the Set-Cookie header the call puts on it, if it puts one.
save_session_on(response, sess) ==
    LET h == save_session_header(sess, refresh_each)
    IN  CASE h = "set" -> [response EXCEPT !.headers = Append(@, <<"Set-Cookie", "session=value">>)]
          [] h = "delete" -> [response EXCEPT !.headers = Append(@, <<"Set-Cookie", "session=">>)]
          [] OTHER -> response

\* The functions process_response calls, in call order (lines 668-672):
\* those registered on the request context, the blueprint's reversed, the
\* application's reversed.  rq.this: the view registered one with
\* after_this_request.
after_request_chain_mut(rq) ==
    <<Fn("this", 1)>>
    \o (IF after_request_funcs[None] > 0
        THEN reversed(ScopeFuncs(after_request_funcs, None)) ELSE <<>>)
    \o (IF rq.bp # None /\ after_request_funcs[rq.bp] > 0
        THEN reversed(ScopeFuncs(after_request_funcs, rq.bp)) ELSE <<>>)
after_request_chain(rq) ==
    (IF rq.this THEN <<Fn("this", 1)>> ELSE <<>>)
    \o (IF rq.bp # None /\ after_request_funcs[rq.bp] > 0
        THEN reversed(ScopeFuncs(after_request_funcs, rq.bp)) ELSE <<>>)
    \o (IF after_request_funcs[None] > 0
        THEN reversed(ScopeFuncs(after_request_funcs, None)) ELSE <<>>)

\* Flask.process_response.  Each function returns the response it was given
\* with one more header, which names the function; rq.afterRaise is the
\* function that raises instead (0: none).
process_response(response, rq) ==
    LET funcs == after_request_chain(rq)
        n == CallsUpTo(Len(funcs), rq.afterRaise)
        resp_after(k) ==
            [response EXCEPT !.headers =
                @ \o [i \in 1..k |-> <<"X-After", FnName(funcs[i])>>]]
        evs == [i \in 1..n |->
                  Ev("after_request", funcs[i], NoExc, resp_after(i - 1),
                     IF i = rq.afterRaise THEN PyRaise ELSE resp_after(i))]
        out == resp_after(n)
    IN  IF rq.afterRaise \in 1..Len(funcs)
        THEN Raise(evs, Exc("HookError", "after_request"))
        ELSE IF is_null_session(rq.sess) THEN Ok(evs, out)
        ELSE LET saved == save_session_on(out, rq.sess.sess)
             IN  Ok(evs \o <<Ev("save_session", NoFn, NoExc, out, saved)>>, saved)

\* Flask.full_dispatch_request, from its end to its start.  Each part takes
\* the result of the part before it.

\* Line 561: request_finished is sent and the response returned.
fdr_finished(p) ==
    IF p.kind = "raise" THEN p
    ELSE Ok(p.trace \o <<Ev("request_finished", NoFn, NoExc, p.val, PyNone)>>, p.val)

\* Line 560: process_response on the response made.
fdr_process_response(r, rq) ==
    IF r.kind = "raise" THEN r
    ELSE fdr_finished(After(r.trace, process_response(r.val, rq)))

\* Line 559: make_response on rv; mr is what make_response did.
fdr_made(d, mr) ==
    IF mr.kind = "raise"
    THEN Raise(d.trace \o <<Ev("make_response", NoFn, NoExc, d.val, PyRaise)>>,
               Exc(mr.exc, "make_response"))
    ELSE Ok(d.trace \o <<Ev("make_response", NoFn, NoExc, d.val, mr.resp)>>, mr.resp)
fdr_make_response(d) ==
    IF d.kind = "raise" THEN d ELSE fdr_made(d, make_response(d.val))

\* Lines 557-558: the except clause hands an Exception raised in the try
\* block to handle_user_exception.
fdr_except(body, rq) ==
    IF body.kind = "raise" /\ is_Exception(body.val)
    THEN After(body.trace, handle_user_exception(body.val, rq.bp))
    ELSE body

\* Line 555: 'if rv is None', after preprocess_request.
should_dispatch_mut(rv) == TRUE
should_dispatch(rv) == rv = PyNone

\* Lines 555-556: dispatch_request is called when preprocessing returned None.
fdr_dispatch(pre, rq) ==
    IF pre.kind = "ok" /\ should_dispatch(pre.val)
    THEN After(pre.trace, dispatch_request(rq))
    ELSE pre

\* Lines 552-558: the try block, entered when the trigger has returned.
fdr_try(trig, rq) ==
    IF trig.kind = "raise" THEN trig
    ELSE fdr_except(fdr_dispatch(
            After(trig.trace \o <<Ev("request_started", NoFn, NoExc, PyNone, PyNone)>>,
                  preprocess_request(rq)), rq), rq)

\* Lines 551-559: the response made of rv.
rendered(rq) ==
    fdr_make_response(
        fdr_try(try_trigger_before_first_request_functions(rq.firstRaise), rq))

full_dispatch_request(rq) == fdr_process_response(rendered(rq), rq)

\* Flask.propagate_exceptions with the default configuration, in which
\* PROPAGATE_EXCEPTIONS is None and TESTING is False.
PROPAGATE_EXCEPTIONS == None
testing == FALSE
propagate_exceptions ==
    IF PROPAGATE_EXCEPTIONS # None THEN PROPAGATE_EXCEPTIONS = "True"
    ELSE testing \/ debug

\* Flask.handle_exception: after the got_request_exception signal, line 512
\* reads self.error_hander_spec, an attribute the application does not have.
handle_exception(e) ==
    Raise(<<Ev("got_request_exception", NoFn, e, PyNone, PyRaise)>>,
          Exc("AttributeError", "handle_exception"))

\* Flask.do_teardown_request.  amb is sys.exc_info()[1] at the call;
\* rq.tdRaise is the function that raises (0: none).  Lines 683-685:
\* funcs = reversed(table.get(None, ())); for a blueprint request,
\* funcs = chain(funcs, reversed(table[bp])).
do_teardown_request_mut(exc, amb, rq) ==
    Ok(<<Ev("do_teardown_request", NoFn, exc, PyNone, PyNone),
         Ev("request_tearing_down", NoFn, exc, PyNone, PyNone)>>, PyNone)
teardown_chain_mut(funcs, bpFuncs) == bpFuncs \o funcs
teardown_chain(funcs, bpFuncs) == funcs \o bpFuncs
do_teardown_request(exc, amb, rq) ==
    LET eff == IF exc = NoExc THEN amb ELSE exc
        funcs == teardown_chain(
                     reversed(ScopeFuncs(teardown_request_funcs, None)),
                     IF rq.bp # None /\ teardown_request_funcs[rq.bp] > 0
                     THEN reversed(ScopeFuncs(teardown_request_funcs, rq.bp))
                     ELSE <<>>)
        n == CallsUpTo(Len(funcs), rq.tdRaise)
        evs == <<Ev("do_teardown_request", NoFn, eff, PyNone, PyNone)>>
               \o [i \in 1..n |->
                     Ev("teardown_request", funcs[i], eff, PyNone,
                        IF i = rq.tdRaise THEN PyRaise ELSE PyNone)]
    IN  IF rq.tdRaise \in 1..Len(funcs)
        THEN Raise(evs, Exc("HookError", "teardown_request"))
        ELSE Ok(evs \o <<Ev("request_tearing_down", NoFn, eff, PyNone, PyNone)>>, PyNone)

\* RequestContext.auto_pop(exc): the request is torn down, which runs the
\* teardown-request functions with the exception (do_teardown_request), and
\* the context leaves the stack.
ctx_popped(td) ==
    IF td.kind = "raise" THEN td
    ELSE Ok(td.trace \o <<Ev("ctx_popped", NoFn, NoExc, PyNone, PyNone)>>, PyNone)
auto_pop(exc, amb, rq) ==
    ctx_popped(After(<<Ev("auto_pop", NoFn, exc, PyNone, PyNone)>>,
                     do_teardown_request(exc, amb, rq)))

\* Lines 718-719: 'except Exception as e: error = e'.
wsgi_error_mut(fd) == NoExc
wsgi_error(fd) == IF fd.kind = "raise" /\ is_Exception(fd.val) THEN fd.val ELSE NoExc

\* Lines 716-721: the inner try block; its except clause calls
\* handle_exception.  fd is what full_dispatch_request did.
wsgi_try(fd) ==
    IF fd.kind = "raise" /\ is_Exception(fd.val)
    THEN After(fd.trace, handle_exception(fd.val))
    ELSE fd

\* What 'last' holds after the call: the request, the attributes
\* match_request gave it when the context was made, the events, what
\* full_dispatch_request did, and the response returned or the exception
\* that leaves wsgi_app.
wsgi_result(rq, fd, tried, pop) ==
    [op |-> "request", rq |-> rq, req |-> match_request(url_adapter_match(rq)),
     trace |-> <<Ev("push", NoFn, NoExc, PyNone, PyNone)>> \o tried.trace \o pop.trace,
     fd |-> [kind |-> fd.kind, val |-> fd.val],
     outcome |-> IF pop.kind = "raise" \/ tried.kind = "raise"
                 THEN "raise" ELSE "response",
     val |-> IF pop.kind = "raise" THEN pop.val ELSE tried.val]

\* Lines 722-725: the finally block.  The exception in flight there, if
\* any, is the one that leaves the try block.
wsgi_finally(rq, fd, tried) ==
    wsgi_result(rq, fd, tried,
                auto_pop(wsgi_error(fd),
                         IF tried.kind = "raise" THEN tried.val ELSE NoExc, rq))

\* Flask.wsgi_app for the request rq.
wsgi_with(rq, fd) == wsgi_finally(rq, fd, wsgi_try(fd))
wsgi_app_call(rq) == wsgi_with(rq, full_dispatch_request(rq))

\* The requests of the model: whether the URL matched a rule (and of which
\* blueprint the rule is) or which routing exception match_request stored
\* (ctx.py lines 135-141), and the method.
RequestKinds ==
    {[route |-> "match", method |-> "GET", bp |-> None],
     [route |-> "match", method |-> "GET", bp |-> "bp"],
     [route |-> "match", method |-> "OPTIONS", bp |-> None],
     [route |-> "NotFound", method |-> "GET", bp |-> None],
     [route |-> "RequestRedirect", method |-> "GET", bp |-> None],
     [route |-> "RequestRedirect", method |-> "POST", bp |-> None]}
Views == {"text", "none", "Sub", "Other", "NotFound", "SystemExit"}

\* Lines 565-570: _got_first_request after the trigger, given its value
\* before; the trigger returns at once when it is set and sets it otherwise.
flag_after_trigger_mut(g) == ~g
flag_after_trigger(g) == IF g THEN g ELSE TRUE

\* Flask.wsgi_app (and __call__): one request is handled.  What the hooks
\* and the view do is chosen for the part of the pipeline that is reached.
wsgi_app ==
    /\ last.op = "idle"
    /\ \E firstRaise \in 0..(IF got_first_request THEN 0 ELSE bf_n) :
       \E k \in {x \in RequestKinds :
                   firstRaise = 0 \/ (x.route = "match" /\ x.method = "GET")} :
       \E preRaise \in 0..(IF firstRaise = 0
                           THEN Len(chain_scopes(url_value_preprocessors, k.bp)) ELSE 0) :
       \E befAt \in 0..(IF firstRaise = 0 /\ preRaise = 0
                        THEN Len(chain_scopes(before_request_funcs, k.bp)) ELSE 0) :
       \E befKind \in (IF befAt = 0 THEN {"stop"} ELSE {"stop", "raise"}) :
       LET inView == /\ firstRaise = 0 /\ preRaise = 0 /\ befAt = 0
                     /\ k.route = "match" /\ k.method = "GET"
       IN
       \E view \in (IF inView THEN Views ELSE {"text"}) :
       LET rq0 == [route |-> k.route, method |-> k.method, bp |-> k.bp,
                   firstRaise |-> firstRaise, preRaise |-> preRaise,
                   befAt |-> befAt, befKind |-> befKind, view |-> view,
                   this |-> FALSE, afterRaise |-> 0, sess |-> NullSession,
                   tdRaise |-> 0]
           made == rendered(rq0).kind = "ok"
       IN
       \E this \in (IF made /\ inView THEN BOOLEAN ELSE {FALSE}) :
       \E afterRaise \in 0..(IF made
                             THEN Len(after_request_chain([rq0 EXCEPT !.this = this]))
                             ELSE 0) :
       \E sess \in (IF made /\ afterRaise = 0 THEN SessionInputs ELSE {NullSession}) :
       \E tdRaise \in 0..(teardown_request_funcs[None]
                          + IF k.bp # None THEN teardown_request_funcs[k.bp] ELSE 0) :
           last' = wsgi_app_call([rq0 EXCEPT !.this = this, !.afterRaise = afterRaise,
                                             !.sess = sess, !.tdRaise = tdRaise])
    /\ got_first_request' = flag_after_trigger(got_first_request)
    /\ UNCHANGED <<before_request_lock, bf_n, tpc, tidx, tret, bf_calls, sets>>
    /\ UNCHANGED <<debug, trap_http_exceptions, hookTables, error_handler_spec, setupTables>>
    /\ UNCHANGED <<ctxVars, respVars, sessVars, reqVars, lazyVars>>

\* The call has returned to its caller, which goes on.
next_call ==
    /\ last.op # "idle"
    /\ last' = Idle
    /\ UNCHANGED <<debug, trap_http_exceptions, hookTables, error_handler_spec, setupTables>>
    /\ UNCHANGED <<ctxVars, firstVars, respVars, sessVars, reqVars, lazyVars>>

\* ------------------------------------------------------------------------
\* ctx.py, RequestContext.  The source has the start of push (lines
\* 142-146); what push does after the eviction, and pop and auto_pop, follow
\* the specification.

\* The request contexts that exist, all of one application.
RequestCtxs == {"r1", "r2"}

\* The application context a request context creates for itself.
\* ------------------------------------------------------------------------
\* helpers.py, flash and get_flashed_messages, for the requests of one
\* client, whose session is carried from one request to the next.

MaxFlashes == 3    \* messages held in session['_flashes']

Messages == {"m1", "m2"}

\* The key '_flashes' is not in the session; RequestContext.flashes is
\* None (ctx.py line 110).
NoFlashes == [present |-> FALSE, v |-> <<>>]
NotLoaded == [loaded |-> FALSE, v |-> <<>>]

FlashIdle ==
    /\ session_flashes = NoFlashes
    /\ ctx_flashes = NotLoaded
    /\ lastFlash = [op |-> "none"]

\* session.get('_flashes', []).
session_get_flashes(sess) == IF sess.present THEN sess.v ELSE <<>>

\* Lines 198-199: session.pop('_flashes') if '_flashes' in session else []:
\* the session afterwards.
session_pop_flashes_mut(sess) == sess
session_pop_flashes(sess) == NoFlashes

\* flash(message) with the default category (lines 188-193).
flash(message) ==
    /\ Len(session_get_flashes(session_flashes)) < MaxFlashes
    /\ session_flashes' =
         [present |-> TRUE,
          v |-> Append(session_get_flashes(session_flashes), <<"message", message>>)]
    /\ lastFlash' = [op |-> "flash", message |-> message]
    /\ UNCHANGED ctx_flashes
    /\ UNCHANGED <<request_ctx_stack, preserved, preserved_exc, implicit_app_ctx,
                   lastPush, preserve_context>>
    /\ UNCHANGED <<ctxVars, firstVars, respVars, sessVars, pipeVars, lazyVars>>

\* get_flashed_messages() with its default arguments (lines 196-205): the
\* messages without their categories.
get_flashed_messages ==
    /\ IF ~ctx_flashes.loaded
       THEN /\ ctx_flashes' = [loaded |-> TRUE, v |-> session_get_flashes(session_flashes)]
            /\ session_flashes' = session_pop_flashes(session_flashes)
       ELSE UNCHANGED <<ctx_flashes, session_flashes>>
    /\ lastFlash' = [op |-> "get", first |-> ~ctx_flashes.loaded,
                     rv |-> [i \in 1..Len(ctx_flashes'.v) |-> ctx_flashes'.v[i][2]]]
    /\ UNCHANGED <<request_ctx_stack, preserved, preserved_exc, implicit_app_ctx,
                   lastPush, preserve_context>>
    /\ UNCHANGED <<ctxVars, firstVars, respVars, sessVars, pipeVars, lazyVars>>

\* The client's next request: a new RequestContext, whose flashes
\* attribute is None (ctx.py line 110), with the session the last request
\* left.
next_request ==
    /\ lastFlash.op # "request"
    /\ ctx_flashes' = NotLoaded
    /\ lastFlash' = [op |-> "request"]
    /\ UNCHANGED session_flashes
    /\ UNCHANGED <<request_ctx_stack, preserved, preserved_exc, implicit_app_ctx,
                   lastPush, preserve_context>>
    /\ UNCHANGED <<ctxVars, firstVars, respVars, sessVars, pipeVars, lazyVars>>

ImplicitApp(r) == "app_of_" \o r

NoPush == [op |-> "none"]

ReqIdle ==
    /\ request_ctx_stack = <<>>
    /\ preserved = [r \in RequestCtxs |-> FALSE]
    /\ preserved_exc = [r \in RequestCtxs |-> None]
    /\ implicit_app_ctx = [r \in RequestCtxs |-> <<>>]
    /\ lastPush = NoPush
    /\ preserve_context = FALSE
    /\ FlashIdle

\* The two stacks and the contexts' fields, as one value.
ReqState == [rs |-> request_ctx_stack, as |-> app_ctx_stack, pres |-> preserved,
             pexc |-> preserved_exc, impl |-> implicit_app_ctx, outcome |-> "ok"]

\* RequestContext.pop(exc) on the state st: the context leaves the request
\* stack and is no longer preserved, and the application context it had
\* created is popped after it; both pops assert that the object popped is
\* the expected one.  A context that has no entry left for an application
\* context cannot be popped.
RequestContext_popped(st, r, exc) ==
    LET app_ctx == Last(st.impl[r])
        rv == StackTop(st.rs)
        popApp == rv = r /\ app_ctx # None
    IN  IF st.impl[r] = <<>> THEN [st EXCEPT !.outcome = "IndexError"] ELSE
        [rs |-> StackPopped(st.rs),
         as |-> IF popApp THEN StackPopped(st.as) ELSE st.as,
         pres |-> [st.pres EXCEPT ![r] = FALSE],
         pexc |-> [st.pexc EXCEPT ![r] = None],
         impl |-> [st.impl EXCEPT ![r] = Front(@)],
         outcome |-> IF rv # r \/ (popApp /\ StackTop(st.as) # app_ctx)
                     THEN "AssertionError" ELSE "ok"]

\* The rest of RequestContext.push on the state st: an application context
\* is created and pushed when none is current, and the context is pushed.
RequestContext_installed(st, r) ==
    LET none == StackTop(st.as) = None
    IN  [st EXCEPT !.as = IF none THEN Append(@, ImplicitApp(r)) ELSE @,
                   !.impl[r] = Append(@, IF none THEN ImplicitApp(r) ELSE None),
                   !.rs = Append(@, r)]

\* Lines 143-144: 'top is not None and top.preserved'.
has_preserved_top_mut(top) == FALSE
has_preserved_top(top) == top # None /\ preserved[top]

\* The state st becomes the state of the variables.
req_becomes(st) ==
    /\ request_ctx_stack' = st.rs
    /\ app_ctx_stack' = st.as
    /\ preserved' = st.pres
    /\ preserved_exc' = st.pexc
    /\ implicit_app_ctx' = st.impl

\* RequestContext.push.  Lines 143-146: a preserved context on top of the
\* stack is popped with its preserved exception; an exception of that pop
\* ends the call.
RequestContext_push(r) ==
    /\ \A i \in 1..Len(request_ctx_stack) : request_ctx_stack[i] # r
    /\ Len(request_ctx_stack) < MaxDepth /\ Len(app_ctx_stack) < MaxDepth
    /\ LET top == StackTop(request_ctx_stack)
           evict == has_preserved_top(top)
           st1 == IF evict THEN RequestContext_popped(ReqState, top, preserved_exc[top])
                  ELSE ReqState
           st2 == IF st1.outcome = "ok" THEN RequestContext_installed(st1, r) ELSE st1
       IN  /\ req_becomes(st2)
           /\ lastPush' = [op |-> "push", ctx |-> r,
                           evicted |-> IF evict THEN top ELSE None,
                           exc |-> IF evict THEN preserved_exc[top] ELSE None,
                           outcome |-> st2.outcome]
    /\ UNCHANGED preserve_context
    /\ UNCHANGED <<refcnt, td_app_n, lastPop, opened, nested, aborted>>
    /\ UNCHANGED <<firstVars, respVars, sessVars, pipeVars, lazyVars, flashVars>>

\* RequestContext.pop(exc), called by the code that pushed the context,
\* when the contexts pushed after it have been popped.
RequestContext_pop(r, exc) ==
    /\ StackTop(request_ctx_stack) = r
    /\ req_becomes(RequestContext_popped(ReqState, r, exc))
    /\ lastPush' = NoPush
    /\ UNCHANGED preserve_context
    /\ UNCHANGED <<refcnt, td_app_n, lastPop, opened, nested, aborted>>
    /\ UNCHANGED <<firstVars, respVars, sessVars, pipeVars, lazyVars, flashVars>>

\* RequestContext.auto_pop(exc) at the end of a request when the context is
\* to be kept: it stays on the stack, preserved, with the exception.
RequestContext_preserve(r, exc) ==
    /\ StackTop(request_ctx_stack) = r
    /\ preserved' = [preserved EXCEPT ![r] = TRUE]
    /\ preserved_exc' = [preserved_exc EXCEPT ![r] = exc]
    /\ lastPush' = NoPush
    /\ UNCHANGED <<request_ctx_stack, implicit_app_ctx, preserve_context>>
    /\ UNCHANGED <<ctxVars, firstVars, respVars, sessVars, pipeVars, lazyVars, flashVars>>

\* ------------------------------------------------------------------------
\* testing.py, FlaskClient.  The client drives the application on the
\* execution unit of the test, so its requests use the stack above.

\* RequestContext.push on the state st: a preserved top is popped with its
\* exception (ctx.py lines 142-146), then the context is installed.
pushed(st, r) ==
    LET top == StackTop(st.rs)
        evict == top # None /\ st.pres[top]
        st1 == IF evict THEN RequestContext_popped(st, top, st.pexc[top]) ELSE st
    IN  IF st1.outcome = "ok" THEN RequestContext_installed(st1, r) ELSE st1

\* PRESERVE_CONTEXT_ON_EXCEPTION has its default, None: the debug flag
\* decides.
preserve_context_on_exception == debug

\* RequestContext.auto_pop(exc) for a context made with the environ flag
\* 'flask._preserve_context' = flag: the context is kept, marked preserved,
\* or popped.
auto_popped(st, r, exc, flag) ==
    IF flag \/ (exc # None /\ preserve_context_on_exception)
    THEN [st EXCEPT !.pres[r] = TRUE, !.pexc[r] = exc]
    ELSE RequestContext_popped(st, r, exc)

\* Line 56 and lines 61-65: _request_ctx_stack.push(outer_reqctx) before
\* the body, _request_ctx_stack.pop() in the finally clause after it.
outer_pushed(st, outer) == [st EXCEPT !.rs = Append(@, outer)]
outer_popped(st) == [st EXCEPT !.rs = StackPopped(@)]

\* FlaskClient.session_transaction with the temporary context c: the
\* states in the body and after the with block; exc is the exception the
\* body raised (None: it returned).
session_transaction_states(st, c, exc) ==
    LET outer == StackTop(st.rs)
        entered == pushed(st, c)
        body == IF entered.outcome = "ok" THEN outer_pushed(entered, outer) ELSE entered
        left == IF entered.outcome = "ok"
                THEN auto_popped(outer_popped(body), c, exc, FALSE)
                ELSE entered
    IN  [body |-> body, left |-> left]

\* Lines 85-86: 'if self.preserve_context: raise RuntimeError(...)'.
refuses_nesting_mut(flag) == FALSE
refuses_nesting(flag) == flag

\* FlaskClient.__enter__.
FlaskClient_enter ==
    /\ IF refuses_nesting(preserve_context)
       THEN /\ lastPush' = [op |-> "enter", outcome |-> "RuntimeError"]
            /\ UNCHANGED preserve_context
       ELSE /\ lastPush' = [op |-> "enter", outcome |-> "ok"]
            /\ preserve_context' = TRUE
    /\ UNCHANGED <<request_ctx_stack, preserved, preserved_exc, implicit_app_ctx>>
    /\ UNCHANGED <<ctxVars, firstVars, respVars, sessVars, pipeVars, lazyVars, flashVars>>

\* FlaskClient.__exit__: the flag is cleared and a preserved context on
\* top of the stack is popped ('top.pop()').
FlaskClient_exit ==
    /\ preserve_context' = FALSE
    /\ LET top == StackTop(request_ctx_stack)
           st == IF top # None /\ preserved[top]
                 THEN RequestContext_popped(ReqState, top, None) ELSE ReqState
       IN  /\ req_becomes(st)
           /\ lastPush' = [op |-> "exit", outcome |-> st.outcome,
                           popped |-> IF top # None /\ preserved[top] THEN top ELSE None]
    /\ UNCHANGED <<refcnt, td_app_n, lastPop, opened, nested, aborted>>
    /\ UNCHANGED <<firstVars, respVars, sessVars, pipeVars, lazyVars, flashVars>>

\* FlaskClient.open: the request is made with the environ flag
\* 'flask._preserve_context' set to self.preserve_context (lines 73-74) and
\* handled by wsgi_app, which pushes the context r and ends with
\* ctx.auto_pop(error) (app.py lines 714-725); exc is the exception that
\* left full_dispatch_request (None: none did).
FlaskClient_open(r, exc) ==
    /\ \A i \in 1..Len(request_ctx_stack) : request_ctx_stack[i] # r
    /\ Len(request_ctx_stack) < MaxDepth /\ Len(app_ctx_stack) < MaxDepth
    /\ LET st1 == pushed(ReqState, r)
           st2 == IF st1.outcome = "ok" THEN auto_popped(st1, r, exc, preserve_context)
                  ELSE st1
       IN  /\ req_becomes(st2)
           /\ lastPush' = [op |-> "open", ctx |-> r, outcome |-> st2.outcome]
    /\ UNCHANGED preserve_context
    /\ UNCHANGED <<refcnt, td_app_n, lastPop, opened, nested, aborted>>
    /\ UNCHANGED <<firstVars, respVars, sessVars, pipeVars, lazyVars, flashVars>>

session_transaction(c, exc) ==
    /\ \A i \in 1..Len(request_ctx_stack) : request_ctx_stack[i] # c
    /\ Len(request_ctx_stack) < MaxDepth /\ Len(app_ctx_stack) < MaxDepth
    /\ LET res == session_transaction_states(ReqState, c, exc)
       IN  /\ req_becomes(res.left)
           /\ lastPush' = [op |-> "session_transaction", ctx |-> c, exc |-> exc,
                           entry |-> request_ctx_stack,
                           bodyTop |-> StackTop(res.body.rs),
                           outcome |-> res.left.outcome]
    /\ UNCHANGED preserve_context
    /\ UNCHANGED <<refcnt, td_app_n, lastPop, opened, nested, aborted>>
    /\ UNCHANGED <<firstVars, respVars, sessVars, pipeVars, lazyVars, flashVars>>

\* ------------------------------------------------------------------------
\* app.py, Flask.logger (lines 211-220) and Flask.jinja_env (lines 222-224)
\* with helpers.py, locked_cached_property.__get__ (lines 363-371).  The
\* threads access the two properties of one application; logger_name is
\* not changed, so the name of a logger that was set always matches.

\* Python's None and _missing where the created objects are numbered.
NoObject == 0

NotGot == [logger |-> NoObject, logger_path |-> "none", jinja_env |-> NoObject]

LazyIdle ==
    /\ logger = NoObject
    /\ logger_lock = None
    /\ jinja_env = NoObject
    /\ jinja_lock = None
    /\ n_create_logger = 0
    /\ n_create_jinja = 0
    /\ lzpc = [t \in Threads |-> "idle"]
    /\ lzval = [t \in Threads |-> NoObject]
    /\ lzgot = [t \in Threads |-> NotGot]

\* Every step of a property access leaves the rest of the application alone.
lazy_frame == UNCHANGED <<ctxVars, firstVars, respVars, sessVars, pipeVars, reqVars>>

\* 'self._logger and self._logger.name == self.logger_name' at line 213 and,
\* under the lock, at line 216.
logger_fast_check(lg) == lg # NoObject
logger_recheck_mut(lg) == FALSE
logger_recheck(lg) == lg # NoObject

\* A thread starts to read app.logger.
logger_call(t) ==
    /\ lzpc[t] = "idle"
    /\ lzpc' = [lzpc EXCEPT ![t] = "logger_fast"]
    /\ UNCHANGED <<logger, logger_lock, jinja_env, jinja_lock, n_create_logger,
                   n_create_jinja, lzval, lzgot>>
    /\ lazy_frame

\* Lines 213-214: the check made without the lock.
logger_fast(t) ==
    /\ lzpc[t] = "logger_fast"
    /\ IF logger_fast_check(logger)
       THEN /\ lzgot' = [lzgot EXCEPT ![t].logger = logger, ![t].logger_path = "fast"]
            /\ lzpc' = [lzpc EXCEPT ![t] = "idle"]
       ELSE /\ lzpc' = [lzpc EXCEPT ![t] = "logger_acquire"]
            /\ UNCHANGED lzgot
    /\ UNCHANGED <<logger, logger_lock, jinja_env, jinja_lock, n_create_logger,
                   n_create_jinja, lzval>>
    /\ lazy_frame

\* Line 215: 'with _logger_lock'.
logger_acquire(t) ==
    /\ lzpc[t] = "logger_acquire"
    /\ logger_lock = None
    /\ logger_lock' = t
    /\ lzpc' = [lzpc EXCEPT ![t] = "logger_locked"]
    /\ UNCHANGED <<logger, jinja_env, jinja_lock, n_create_logger, n_create_jinja,
                   lzval, lzgot>>
    /\ lazy_frame

\* Lines 216-217: the check under the lock; the return leaves the with
\* block, which releases the lock.
logger_locked(t) ==
    /\ lzpc[t] = "logger_locked"
    /\ IF logger_recheck(logger)
       THEN /\ lzgot' = [lzgot EXCEPT ![t].logger = logger, ![t].logger_path = "recheck"]
            /\ logger_lock' = None
            /\ lzpc' = [lzpc EXCEPT ![t] = "idle"]
       ELSE /\ lzpc' = [lzpc EXCEPT ![t] = "logger_create"]
            /\ UNCHANGED <<lzgot, logger_lock>>
    /\ UNCHANGED <<logger, jinja_env, jinja_lock, n_create_logger, n_create_jinja, lzval>>
    /\ lazy_frame

\* Line 219, right-hand side: create_logger(self) sets the logger up.
logger_create(t) ==
    /\ lzpc[t] = "logger_create"
    /\ n_create_logger' = n_create_logger + 1
    /\ lzval' = [lzval EXCEPT ![t] = n_create_logger + 1]
    /\ lzpc' = [lzpc EXCEPT ![t] = "logger_assign"]
    /\ UNCHANGED <<logger, logger_lock, jinja_env, jinja_lock, n_create_jinja, lzgot>>
    /\ lazy_frame

\* Lines 219-220: 'self._logger = rv = ...; return rv', which releases the
\* lock.
logger_assign(t) ==
    /\ lzpc[t] = "logger_assign"
    /\ logger' = lzval[t]
    /\ lzgot' = [lzgot EXCEPT ![t].logger = lzval[t], ![t].logger_path = "create"]
    /\ logger_lock' = None
    /\ lzval' = [lzval EXCEPT ![t] = NoObject]
    /\ lzpc' = [lzpc EXCEPT ![t] = "idle"]
    /\ UNCHANGED <<jinja_env, jinja_lock, n_create_logger, n_create_jinja>>
    /\ lazy_frame

\* 'value is _missing' (helpers.py line 368).
is_missing(value) == value = NoObject

\* A thread starts to read app.jinja_env: __get__ is entered.
jinja_call(t) ==
    /\ lzpc[t] = "idle"
    /\ lzpc' = [lzpc EXCEPT ![t] = "jinja_acquire"]
    /\ UNCHANGED <<logger, logger_lock, jinja_env, jinja_lock, n_create_logger,
                   n_create_jinja, lzval, lzgot>>
    /\ lazy_frame

\* helpers.py line 366: 'with self.lock'.
jinja_acquire(t) ==
    /\ lzpc[t] = "jinja_acquire"
    /\ jinja_lock = None
    /\ jinja_lock' = t
    /\ lzpc' = [lzpc EXCEPT ![t] = "jinja_get"]
    /\ UNCHANGED <<logger, logger_lock, jinja_env, n_create_logger, n_create_jinja,
                   lzval, lzgot>>
    /\ lazy_frame

\* helpers.py lines 367-368: the value is read from the object's __dict__.
jinja_get(t) ==
    /\ lzpc[t] = "jinja_get"
    /\ lzval' = [lzval EXCEPT ![t] = jinja_env]
    /\ lzpc' = [lzpc EXCEPT ![t] =
                   IF is_missing(jinja_env) THEN "jinja_create" ELSE "jinja_return"]
    /\ UNCHANGED <<logger, logger_lock, jinja_env, jinja_lock, n_create_logger,
                   n_create_jinja, lzgot>>
    /\ lazy_frame

\* helpers.py line 369: 'value = self.func(obj)', which is
\* create_jinja_environment.
jinja_create(t) ==
    /\ lzpc[t] = "jinja_create"
    /\ n_create_jinja' = n_create_jinja + 1
    /\ lzval' = [lzval EXCEPT ![t] = n_create_jinja + 1]
    /\ lzpc' = [lzpc EXCEPT ![t] = "jinja_store"]
    /\ UNCHANGED <<logger, logger_lock, jinja_env, jinja_lock, n_create_logger, lzgot>>
    /\ lazy_frame

\* helpers.py line 370: the value is stored in the object's __dict__.
jinja_store(t) ==
    /\ lzpc[t] = "jinja_store"
    /\ jinja_env' = lzval[t]
    /\ lzpc' = [lzpc EXCEPT ![t] = "jinja_return"]
    /\ UNCHANGED <<logger, logger_lock, jinja_lock, n_create_logger, n_create_jinja,
                   lzval, lzgot>>
    /\ lazy_frame

\* helpers.py line 371: 'return value', which releases the lock.
jinja_return(t) ==
    /\ lzpc[t] = "jinja_return"
    /\ lzgot' = [lzgot EXCEPT ![t].jinja_env = lzval[t]]
    /\ jinja_lock' = None
    /\ lzval' = [lzval EXCEPT ![t] = NoObject]
    /\ lzpc' = [lzpc EXCEPT ![t] = "idle"]
    /\ UNCHANGED <<logger, logger_lock, jinja_env, n_create_logger, n_create_jinja>>
    /\ lazy_frame

\* An application as constructed, with the configuration of its deployment.
Init ==
    /\ CtxIdle /\ ReqIdle /\ LazyIdle /\ FirstIdle /\ RespIdle /\ SessIdle
    /\ debug \in BOOLEAN
    /\ trap_http_exceptions \in BOOLEAN
    /\ before_request_funcs = [s \in Scopes |-> 0]
    /\ after_request_funcs = [s \in Scopes |-> 0]
    /\ teardown_request_funcs = [s \in Scopes |-> 0]
    /\ url_value_preprocessors = [s \in Scopes |-> 0]
    /\ error_handler_spec = <<>>
    /\ blueprints = [n \in BlueprintNames |-> None]
    /\ url_map = 0
    /\ view_functions = [e \in Endpoints |-> None]
    /\ error_handler_codes = [k \in Scopes |-> {}]
    /\ error_handler_spec_bp = <<>>
    /\ last = Idle

Next ==
    \/ before_first_method
    \/ before_request
    \/ after_request
    \/ teardown_request
    \/ url_value_preprocessor
    \/ \E kind \in HookKinds : blueprint_hook(kind)
    \/ \E x \in HandlerArgs : errorhandler(x)
    \/ wsgi_app
    \/ next_call

Spec == Init /\ [][Next]_vars

\* The application under setup calls, requests and Flask.run, with the
\* default TRAP_HTTP_EXCEPTIONS.
SetupInit ==
    /\ CtxIdle /\ ReqIdle /\ LazyIdle /\ FirstIdle /\ RespIdle /\ SessIdle
    /\ debug \in BOOLEAN
    /\ trap_http_exceptions = FALSE
    /\ before_request_funcs = [k \in Scopes |-> 0]
    /\ after_request_funcs = [k \in Scopes |-> 0]
    /\ teardown_request_funcs = [k \in Scopes |-> 0]
    /\ url_value_preprocessors = [k \in Scopes |-> 0]
    /\ error_handler_spec = <<>>
    /\ blueprints = [n \in BlueprintNames |-> None]
    /\ url_map = 0
    /\ view_functions = [e \in Endpoints |-> None]
    /\ error_handler_codes = [k \in Scopes |-> {}]
    /\ error_handler_spec_bp = <<>>
    /\ last = Idle

SetupNext ==
    \/ before_first_method
    \/ before_request
    \/ after_request
    \/ teardown_request
    \/ url_value_preprocessor
    \/ teardown_appcontext
    \/ \E x \in HandlerArgs : errorhandler(x)
    \/ \E x \in HandlerArgs : register_error_hander(x)
    \/ \E k \in Scopes, x \in RegisterArgs : register_error_handler(k, x)
    \/ \E ep \in Endpoints \cup {None}, f \in ViewFuncs \cup {None} : add_url_rule(ep, f)
    \/ \E ep \in Endpoints \cup {None}, f \in ViewFuncs : route(ep, f)
    \/ \E ep \in Endpoints, f \in ViewFuncs : endpoint(ep, f)
    \/ \E b \in Blueprints : register_blueprint(b)
    \/ \E dbg \in RunDebugArgs : run(dbg)
    \/ wsgi_app
    \/ next_call

SpecSetup == SetupInit /\ [][SetupNext]_vars

\* handle_http_exception on its own: the tables of status-code handlers
\* are given, and the function is called for an HTTP exception raised in a
\* request of the application or of the blueprint.
HandlerCodes == {301, 404}
HttpExceptions ==
    {Exc("NotFound", "view"), Exc("RequestRedirect", "view"), Exc("HTTPException", "view")}

HttpInit ==
    /\ CtxIdle /\ ReqIdle /\ LazyIdle /\ FirstIdle /\ RespIdle /\ SessIdle
    /\ debug = FALSE
    /\ trap_http_exceptions = FALSE
    /\ before_request_funcs = [k \in Scopes |-> 0]
    /\ after_request_funcs = [k \in Scopes |-> 0]
    /\ teardown_request_funcs = [k \in Scopes |-> 0]
    /\ url_value_preprocessors = [k \in Scopes |-> 0]
    /\ error_handler_spec = <<>>
    /\ blueprints = [n \in BlueprintNames |-> None]
    /\ url_map = 0
    /\ view_functions = [e \in Endpoints |-> None]
    /\ error_handler_codes \in [Scopes -> SUBSET HandlerCodes]
    /\ error_handler_spec_bp = <<>>
    /\ last = Idle

handle_http_exception_call ==
    /\ last.op = "idle"
    /\ \E e \in HttpExceptions, bp \in Scopes :
         LET res == handle_http_exception(e, bp)
         IN  last' = [op |-> "handle_http_exception", e |-> e, bp |-> bp,
                      trace |-> res.trace, val |-> res.val]
    /\ UNCHANGED <<debug, trap_http_exceptions, hookTables, error_handler_spec, setupTables>>
    /\ UNCHANGED <<ctxVars, firstVars, respVars, sessVars, reqVars, lazyVars>>

HttpNext ==
    \/ handle_http_exception_call
    \/ next_call

SpecHttp == HttpInit /\ [][HttpNext]_vars

\* ------------------------------------------------------------------------
\* app.py, Flask.handle_url_build_error (lines 635-647), as url_for calls
\* it (helpers.py lines 163-170) or as it is called directly.

MaxHandlers == 3   \* functions in url_build_error_handlers

\* A BuildError: the one url_for caught (0) or the one handler i raised.
BuildError(i) == [t |-> "BuildError", by |-> i]
\* No exception (sys.exc_info()[1] outside an except clause), and the
\* state of a local name that is not bound.
NoBuildError == [t |-> "None", by |-> 0]
Unbound == [t |-> "unbound", by |-> 0]
\* The URL handler i returns.
BuiltUrl(i) == [t |-> "url", by |-> i]

\* What a handler does when called: it returns None, returns a URL, or
\* raises a BuildError.
HandlerBehaviours == {"none", "url", "raise"}
HandlerLists == UNION {[1..n -> HandlerBehaviours] : n \in 0..MaxHandlers}

\* The name 'error' when the clause 'except BuildError as error: pass'
\* (lines 642-643) has ended, e being the exception caught.  Python 2
\* leaves the name bound to e; Python 3 deletes the name at the end of the
\* clause.  The package imports both from ._compat and uses Python 2
\* names, so the interpreter is either.
error_after_except(e, py3) == IF py3 THEN Unbound ELSE e

\* Lines 637-647 from handler i on: 'error' is the local name, calls the
\* calls made so far (the handler and the error it was given).
RECURSIVE build_error_loop(_, _, _, _, _, _)
build_error_loop(hs, i, error, exc_value, py3, calls) ==
    IF i > Len(hs)
    THEN IF error = Unbound
         THEN [kind |-> "raise", val |-> [t |-> "UnboundLocalError", by |-> 0],
               calls |-> calls]
         ELSE [kind |-> "raise", val |-> error, calls |-> calls]
    ELSE IF error = Unbound
    THEN [kind |-> "raise", val |-> [t |-> "UnboundLocalError", by |-> i],
          calls |-> calls]
    ELSE LET called == Append(calls, <<i, error>>)
         IN  CASE hs[i] = "url" -> [kind |-> "return", val |-> BuiltUrl(i), calls |-> called]
               [] hs[i] = "none" ->
                    build_error_loop(hs, i + 1, error, exc_value, py3, called)
               [] OTHER ->
                    build_error_loop(hs, i + 1, error_after_except(BuildError(i), py3),
                                     exc_value, py3, called)

\* Flask.handle_url_build_error(error, endpoint, values) with the handlers
\* hs; exc_value is sys.exc_info()[1] at the call.  'reraise(exc_type,
\* exc_value, tb)' and 'raise error' raise the same object when error is
\* exc_value.
handle_url_build_error(hs, error, exc_value, py3) ==
    build_error_loop(hs, 1, error, exc_value, py3, <<>>)

BuildInit ==
    /\ CtxIdle /\ ReqIdle /\ LazyIdle /\ FirstIdle /\ RespIdle /\ SessIdle /\ PipeIdle

\* One call: from the except clause of url_for (the error is the
\* exception in flight) or from elsewhere (none is in flight).
handle_url_build_error_call ==
    /\ last.op = "idle"
    /\ \E hs \in HandlerLists, inflight \in BOOLEAN, py3 \in BOOLEAN :
         LET exc_value == IF inflight THEN BuildError(0) ELSE NoBuildError
             res == handle_url_build_error(hs, BuildError(0), exc_value, py3)
         IN  last' = [op |-> "handle_url_build_error", hs |-> hs,
                      inflight |-> inflight, py3 |-> py3,
                      kind |-> res.kind, val |-> res.val, calls |-> res.calls]
    /\ UNCHANGED <<debug, trap_http_exceptions, hookTables, error_handler_spec, setupTables>>
    /\ UNCHANGED <<ctxVars, firstVars, respVars, sessVars, reqVars, lazyVars>>

BuildNext ==
    \/ handle_url_build_error_call
    \/ next_call

SpecBuild == BuildInit /\ [][BuildNext]_vars

\* Request contexts pushed, popped and preserved on one execution unit,
\* with application contexts pushed by the caller.
ReqInit ==
    /\ CtxIdle /\ ReqIdle /\ LazyIdle /\ FirstIdle /\ RespIdle /\ SessIdle /\ PipeIdle

ReqNext ==
    \/ \E r \in RequestCtxs : RequestContext_push(r)
    \/ \E r \in RequestCtxs, exc \in ExcOrNone : RequestContext_pop(r, exc)
    \/ \E r \in RequestCtxs, exc \in ExcOrNone : RequestContext_preserve(r, exc)
    \/ \E c \in AppCtxs : AppContext_push(c)

SpecReq == ReqInit /\ [][ReqNext]_vars

\* The test client on one execution unit: requests opened through it, its
\* with block, session transactions, and request contexts pushed and
\* popped by the test itself.
ClientInit ==
    /\ CtxIdle /\ ReqIdle /\ LazyIdle /\ FirstIdle /\ RespIdle /\ SessIdle
    /\ debug \in BOOLEAN
    /\ trap_http_exceptions = FALSE
    /\ before_request_funcs = [k \in Scopes |-> 0]
    /\ after_request_funcs = [k \in Scopes |-> 0]
    /\ teardown_request_funcs = [k \in Scopes |-> 0]
    /\ url_value_preprocessors = [k \in Scopes |-> 0]
    /\ error_handler_spec = <<>>
    /\ blueprints = [n \in BlueprintNames |-> None]
    /\ url_map = 0
    /\ view_functions = [e \in Endpoints |-> None]
    /\ error_handler_codes = [k \in Scopes |-> {}]
    /\ error_handler_spec_bp = <<>>
    /\ last = Idle

ClientNext ==
    \/ FlaskClient_enter
    \/ FlaskClient_exit
    \/ \E r \in RequestCtxs, exc \in ExcOrNone : FlaskClient_open(r, exc)
    \/ \E c \in RequestCtxs, exc \in ExcOrNone : session_transaction(c, exc)
    \/ \E r \in RequestCtxs : RequestContext_push(r)
    \/ \E r \in RequestCtxs, exc \in ExcOrNone : RequestContext_pop(r, exc)

SpecClient == ClientInit /\ [][ClientNext]_vars

\* Flash messages over the requests of one client.
FlashNext ==
    \/ \E m \in Messages : flash(m)
    \/ get_flashed_messages
    \/ next_request

SpecFlash == ReqInit /\ [][FlashNext]_vars

\* The threads' accesses to app.logger and app.jinja_env.
LazyInit ==
    /\ CtxIdle /\ ReqIdle /\ LazyIdle /\ FirstIdle /\ RespIdle /\ SessIdle /\ PipeIdle

LazyNext ==
    \E t \in Threads :
        \/ logger_call(t)
        \/ logger_fast(t)
        \/ logger_acquire(t)
        \/ logger_locked(t)
        \/ logger_create(t)
        \/ logger_assign(t)
        \/ jinja_call(t)
        \/ jinja_acquire(t)
        \/ jinja_get(t)
        \/ jinja_create(t)
        \/ jinja_store(t)
        \/ jinja_return(t)

SpecLazy == LazyInit /\ [][LazyNext]_vars

CtxInit == CtxIdle /\ ReqIdle /\ LazyIdle /\ FirstIdle /\ RespIdle /\ SessIdle /\ PipeIdle

CtxNext ==
    \/ teardown_appcontext
    \/ \E c \in AppCtxs : AppContext_push(c)
    \/ \E c \in AppCtxs, exc \in ExcOrNone : AppContext_pop(c, exc)

SpecCtx == CtxInit /\ [][CtxNext]_vars

FirstInit == CtxIdle /\ ReqIdle /\ LazyIdle /\ FirstIdle /\ RespIdle /\ SessIdle /\ PipeIdle

FirstNext ==
    \/ before_first_method
    \/ \E t \in Threads :
        \/ trigger_call(t)
        \/ trigger_fast_check(t)
        \/ trigger_acquire(t)
        \/ trigger_recheck(t)
        \/ trigger_set(t)
        \/ trigger_func(t)
        \/ trigger_release(t)

SpecFirst == FirstInit /\ [][FirstNext]_vars

RespInit ==
    /\ CtxIdle /\ ReqIdle /\ LazyIdle /\ FirstIdle /\ SessIdle /\ PipeIdle
    /\ mr_in \in ViewReturns /\ mr_out = MrPending

RespNext == call_make_response \/ next_view_return

SpecResp == RespInit /\ [][RespNext]_vars

SessInit == CtxIdle /\ ReqIdle /\ LazyIdle /\ FirstIdle /\ RespIdle /\ SessIdle /\ PipeIdle

SessNext ==
    \/ session_setitem
    \/ set_permanent
    \/ set_modified
    \/ config_refresh_each
    \/ save_session
    \/ open_session

SpecSession == SessInit /\ [][SessNext]_vars

\* ------------------------------------------------------------------------
\* Claims about the application-context stack (checked under SpecCtx).

\* C4: after a properly nested sequence of pushes and pops in which every
\* push has been matched by a pop call, the stack is what it was before the
\* sequence (here: empty) and every context has reference count 0.
C4_LIFOBalance ==
    (nested /\ opened = <<>>) =>
        /\ app_ctx_stack = <<>>
        /\ \A c \in AppCtxs : refcnt[c] = 0

\* The same balance, for the sequences in which every pop call returned: at
\* every point the stack holds exactly the open pushes, and each count is
\* the number of open pushes of its context.
BalanceWhenPopsReturn ==
    (nested /\ ~aborted) =>
        /\ app_ctx_stack = opened
        /\ \A c \in AppCtxs : refcnt[c] = Count(c, opened)

C3_SetOnce ==
    /\ sets <= 1
    /\ (got_first_request <=> sets = 1)
    /\ \A i \in 1..bf_n : bf_calls[i] <= 1
    /\ \A t \in Threads : tret[t] # "none" => got_first_request /\ sets = 1

\* Two threads passed the unlocked check while the flag was false: one ran
\* both functions, the other found the flag set under the lock; a third
\* call took the fast path.
C3_Witness ==
    /\ bf_n = 2
    /\ \E t1, t2, t3 \in Threads :
        /\ tret[t1] = "ran"
        /\ tret[t2] = "recheck"
        /\ tret[t3] = "fast"
    /\ \A i \in 1..2 : bf_calls[i] = 1

\* ------------------------------------------------------------------------
\* Claims about make_response (checked under SpecResp).

\* The supplied parts of a tuple return value.
TupleBody == IF Len(mr_in.v) >= 1 THEN mr_in.v[1] ELSE PyNone
TupleStatus == IF Len(mr_in.v) >= 2 THEN mr_in.v[2] ELSE PyNone
TupleHeaders == IF Len(mr_in.v) >= 3 /\ mr_in.v[3] # PyNone THEN mr_in.v[3].v ELSE <<>>

\* C8: for a tuple (body, status, headers), any suffix omitted, with a text
\* body, the response has that body, the supplied status (code or reason
\* line) or 200, each supplied header exactly as many times as supplied,
\* and the headers of the body construction.
C8_TupleTextResponse ==
    (mr_out # MrPending /\ mr_in.t = "tuple" /\ Len(mr_in.v) \in 1..3
        /\ TupleBody.t = "str") =>
        /\ mr_out.kind = "ok"
        /\ mr_out.resp.body = TupleBody.v
        /\ (TupleStatus = PyNone =>
                mr_out.resp.status_code = 200 /\ mr_out.resp.status = "200 OK")
        /\ (TupleStatus.t = "int" =>
                mr_out.resp.status_code = TupleStatus.v
                /\ mr_out.resp.status = StatusLine(TupleStatus.v))
        /\ (TupleStatus.t = "str" =>
                mr_out.resp.status = TupleStatus.v
                /\ mr_out.resp.status_code = StatusCode(TupleStatus.v))
        /\ \A i \in 1..Len(TupleHeaders) :
                Count(TupleHeaders[i], mr_out.resp.headers) = Count(TupleHeaders[i], TupleHeaders)
        /\ \A i \in 1..2 : Count(BodyHeaders(TupleBody.v)[i], mr_out.resp.headers) = 1
        /\ Len(mr_out.resp.headers) = Len(TupleHeaders) + 2

\* The view returned ("body", 201, {"X-Test": "1"}) and the response is out.
C8_Witness ==
    /\ mr_in = PyTuple(<<PyStr("body"), PyInt(201), PyHeaders(<< <<"X-Test", "1">> >>)>>)
    /\ mr_out.kind = "ok"
    /\ mr_out.resp.status = "201 CREATED"
    /\ Count(<<"X-Test", "1">>, mr_out.resp.headers) = 1

\* C9: when the body is None, as the return value itself or as the first
\* element of a tuple, make_response raises ValueError and makes no
\* response.
C9_NoneBodyRaises ==
    (mr_out # MrPending
        /\ (mr_in = PyNone \/ (mr_in.t = "tuple" /\ Len(mr_in.v) >= 1 /\ mr_in.v[1] = PyNone))) =>
        /\ mr_out.kind = "raise"
        /\ mr_out.exc = "ValueError"

\* A tuple with None first and a status and headers was given, and the call
\* has ended.
C9_Witness ==
    /\ mr_in = PyTuple(<<PyNone, PyInt(201), PyHeaders(<< <<"X-Test", "1">> >>)>>)
    /\ mr_out = [kind |-> "raise", exc |-> "ValueError"]

\* ------------------------------------------------------------------------
\* Claims about save_session (checked under SpecSession).

\* C10 as claimed: a session that is not modified, permanent or not, gets
\* no Set-Cookie header from save_session when
\* SESSION_REFRESH_EACH_REQUEST has its default value.
C10_UnmodifiedNoCookie ==
    (lastSave.done /\ ~lastSave.sess.modified /\ lastSave.refresh = TRUE) =>
        lastSave.header = "none"

\* C10 as amended: under the default SESSION_REFRESH_EACH_REQUEST, an
\* unmodified session that is not permanent gets no Set-Cookie header, and
\* an unmodified permanent session gets its cookie set again.
C10_UnmodifiedCookieOnlyIfPermanent ==
    (lastSave.done /\ ~lastSave.sess.modified /\ lastSave.refresh = TRUE) =>
        lastSave.header = IF lastSave.sess.content.perm = "true" THEN "set" ELSE "none"

\* save_session was called, under the default setting, on an unmodified
\* session that holds data and is not permanent, and set no header.
C10_Witness ==
    /\ lastSave.done /\ ~lastSave.sess.modified /\ lastSave.refresh = TRUE
    /\ lastSave.sess.content.data
    /\ lastSave.sess.content.perm # "true"
    /\ cookie.held
    /\ lastSave.header = "none"

\* ------------------------------------------------------------------------
\* Claims about the dispatch pipeline (checked under Spec).

\* The positions of the events of one kind in the latest request.
TraceIdx(ev) == {i \in 1..Len(last.trace) : last.trace[i].ev = ev}
\* The exception that left full_dispatch_request, if one did.
Escaped == IF last.fd.kind = "raise" THEN last.fd.val ELSE NoExc
\* The functions of a hook table that apply to the latest request.
Applicable(tab) ==
    {Fn(None, i) : i \in 1..tab[None]}
    \cup (IF last.rq.bp = None THEN {} ELSE {Fn(last.rq.bp, i) : i \in 1..tab[last.rq.bp]})
CallsOf(ev, f) == {i \in TraceIdx(ev) : last.trace[i].fn = f}

C2_HooksBeforeRouting ==
    (last.op = "request" /\ last.rq.route # "match") =>
        /\ \A k \in TraceIdx("raise_routing_exception") :
            \A f \in Applicable(before_request_funcs) :
                \E j \in CallsOf("before_request", f) :
                    j < k /\ last.trace[j].rout = PyNone
        /\ (\E j \in TraceIdx("before_request") : last.trace[j].rout = HookReturn) =>
            /\ TraceIdx("dispatch_request") = {}
            /\ TraceIdx("raise_routing_exception") = {}
            /\ Escaped.origin # "routing"

\* A request for an unknown URL: both before-request functions ran, then
\* the NotFound was raised and became the 404 response.
C2_Witness ==
    /\ last.op = "request" /\ last.rq.route = "NotFound"
    /\ before_request_funcs[None] = 2
    /\ \A f \in Applicable(before_request_funcs) : CallsOf("before_request", f) # {}
    /\ TraceIdx("raise_routing_exception") # {}
    /\ last.outcome = "response" /\ last.val.status_code = 404

\* C6: process_response calls the after-request functions of a scope in
\* reverse registration order, each receives the response returned by the
\* call just before it (the first: the response make_response made), and
\* when none raises every applicable function is called exactly once.
C6_AfterReverseOrder ==
    last.op = "request" =>
        /\ \A i, j \in TraceIdx("after_request") :
            (i < j /\ last.trace[i].fn.scope = last.trace[j].fn.scope)
                => last.trace[i].fn.idx > last.trace[j].fn.idx
        /\ \A i \in TraceIdx("after_request") :
            /\ last.trace[i - 1].ev \in {"after_request", "make_response"}
            /\ last.trace[i].rin = last.trace[i - 1].rout
        /\ TraceIdx("request_finished") # {} =>
            \A f \in Applicable(after_request_funcs) :
                Cardinality(CallsOf("after_request", f)) = 1

\* Two functions registered with after_request: the second was called
\* first, the first received what the second returned, and the response
\* carries their headers in call order.
C6_Witness ==
    /\ last.op = "request" /\ last.outcome = "response"
    /\ after_request_funcs[None] = 2
    /\ \E i \in CallsOf("after_request", Fn(None, 2)) :
        /\ CallsOf("after_request", Fn(None, 1)) = {i + 1}
        /\ last.trace[i + 1].rin = last.trace[i].rout
        /\ Count(<<"X-After", "None2">>, last.trace[i].rout.headers) = 1
    /\ \E n \in 1..Len(last.val.headers) :
        /\ last.val.headers[n] = <<"X-After", "None2">>
        /\ last.val.headers[n + 1] = <<"X-After", "None1">>

\* isinstance(e, typecheck) for the classes of the model.
IsInstance(e, typecheck) == e.cls = typecheck \/ (e.cls = "Sub" /\ typecheck = "Base")

\* C7 as claimed: when the view raises an exception that is an instance of
\* the class of a typed handler registered on the application, the request
\* ends with a response made by full_dispatch_request and the exception
\* does not reach handle_exception.
C7_TypedHandlerHandles ==
    (/\ last.op = "request"
     /\ \E i \in TraceIdx("view") :
            /\ last.trace[i].rout = PyRaise
            /\ \E k \in 1..Len(error_handler_spec) :
                    IsInstance(last.trace[i].exc, error_handler_spec[k]))
    => /\ last.fd.kind = "ok"
       /\ TraceIdx("got_request_exception") = {}

\* ------------------------------------------------------------------------
\* More claims about save_session (checked under SpecSession).

\* C11: for a session whose modified flag is True, under either setting of
\* SESSION_REFRESH_EACH_REQUEST, save_session puts a Set-Cookie header on
\* the response: the cookie's deletion for an empty session, the cookie
\* itself for any other.
C11_ModifiedWritesCookie ==
    (lastSave.done /\ lastSave.sess.modified) =>
        lastSave.header = IF session_empty(lastSave.sess) THEN "delete" ELSE "set"

\* save_session was called on a modified session that is not permanent,
\* with SESSION_REFRESH_EACH_REQUEST off, and set the cookie.
C11_Witness ==
    /\ lastSave.done /\ lastSave.sess.modified
    /\ ~session_empty(lastSave.sess) /\ ~permanent(lastSave.sess)
    /\ lastSave.refresh = FALSE
    /\ lastSave.header = "set"
    /\ cookie = [held |-> TRUE, content |-> lastSave.sess.content]

\* ------------------------------------------------------------------------
\* Claims about the setup operations, under SpecSetup.

\* Everything a registration may write.
registrationState ==
    <<hookTables, error_handler_spec, setupTables, bf_n, td_app_n>>

\* C12: a register_blueprint call that the setup guard lets through, for a
\* blueprint whose name is already registered, fails with the name-collision
\* error and leaves app.blueprints as it was when the registered object is
\* another instance, and succeeds and leaves the whole registration state
\* as it was when it is the same instance.
C12_ReRegistration ==
    [][ (/\ last'.op = "register_blueprint"
         /\ blueprints[blueprint_name(last'.blueprint)] # None
         /\ ~setupmethod_refuses)
        => IF blueprints[blueprint_name(last'.blueprint)] = last'.blueprint
           THEN /\ last'.outcome = "ok"
                /\ registrationState' = registrationState
           ELSE /\ last'.outcome = "NameCollision"
                /\ blueprints' = blueprints ]_vars

\* C12 witness: b1 is registered, its recorded function is in the table,
\* and a call with b2 has ended in the name collision.
C12_Witness ==
    /\ last.op = "register_blueprint"
    /\ last.blueprint = "b2" /\ last.outcome = "NameCollision"
    /\ blueprints["bp"] = "b1"
    /\ before_request_funcs["bp"] = 1

\* The values of last.op that setup calls leave.
SetupOps == {"setup", "register_blueprint", "register_error_handler"}

\* C13 as stated: once the first request was handled, every setup call is
\* rejected and leaves the registration state as it was, whatever the debug
\* setting.
C13_AlwaysRejected ==
    [][ (got_first_request /\ last'.op \in SetupOps)
        => (last'.outcome # "ok" /\ registrationState' = registrationState) ]_vars

\* C13: once the first request was handled and the debug setting is true,
\* every setup call is rejected and leaves the registration state as it was.
C13_RejectedInDebug ==
    [][ (debug /\ got_first_request /\ last'.op \in SetupOps)
        => (last'.outcome # "ok" /\ registrationState' = registrationState) ]_vars

\* C13 witness: in debug mode, after the first request, the setupmethod
\* wrapper has refused a register_blueprint call.
C13_Witness ==
    /\ debug /\ got_first_request
    /\ last.op = "register_blueprint" /\ last.outcome = "AssertionError"
    /\ blueprints["bp"] = None

\* C14: no scope other than the application's has a handler for 500 in its
\* table, and a _register_error_handler call for 500, given as the integer
\* or as an HTTP exception, with a blueprint's key has ended in the
\* AssertionError.
C14_No500InModuleScope ==
    /\ \A k \in Scopes \ {None} : 500 \notin error_handler_codes[k]
    /\ (/\ last.op = "register_error_handler"
        /\ last.key # None
        /\ last.arg.t \in {"int", "http"} /\ last.arg.v = 500)
       => last.outcome = "AssertionError"

\* C14 witness: outside debug mode, the registration of an HTTP exception
\* denoting 500 under the blueprint's key was rejected by the assertion.
C14_Witness ==
    /\ ~debug
    /\ last.op = "register_error_handler"
    /\ last.key = "bp" /\ last.arg = PyHTTPException(500)
    /\ last.outcome = "AssertionError"
    /\ error_handler_codes["bp"] = {}

\* ------------------------------------------------------------------------
\* Claims about handle_exception, under Spec.

\* C15 as claimed: when an Exception leaves full_dispatch_request and
\* propagate_exceptions is true, the got-exception notification is sent and
\* that very exception leaves wsgi_app.
C15_PropagatesSameException ==
    (/\ last.op = "request"
     /\ last.rq.tdRaise = 0
     /\ Escaped # NoExc /\ is_Exception(Escaped)
     /\ propagate_exceptions)
    => /\ TraceIdx("got_request_exception") # {}
       /\ last.outcome = "raise"
       /\ last.val = Escaped

\* C16 as claimed: when an Exception leaves full_dispatch_request and
\* propagate_exceptions is false, the got-exception notification is sent
\* and wsgi_app returns a response with status 500; no exception leaves it.
C16_Returns500 ==
    (/\ last.op = "request"
     /\ last.rq.tdRaise = 0
     /\ Escaped # NoExc /\ is_Exception(Escaped)
     /\ ~propagate_exceptions)
    => /\ TraceIdx("got_request_exception") # {}
       /\ last.outcome = "response"
       /\ last.val.status_code = 500

\* The after-request functions called for the latest request.
AfterCalled ==
    CallsUpTo(Len(after_request_chain(last.rq)), last.rq.afterRaise)

C19_StaysTrue ==
    [][got_first_request => got_first_request']_vars

\* C19: _got_first_request, once true, is set back to false by nothing but
\* the return of a Flask.run call.
C19_OnlyRunResets ==
    [][(got_first_request /\ ~got_first_request') => last'.op = "run"]_vars

\* C19 witness: a request had set the flag and a Flask.run call has
\* returned and reset it.
C19_Witness ==
    /\ last.op = "run" /\ last.reset
    /\ ~got_first_request

\* ------------------------------------------------------------------------
\* Claims about RequestContext.push, under SpecReq.

\* C18: a RequestContext.push call pops the preserved context it finds on
\* top of the stack, and no other, passing it its preserved exception; when
\* the call returns, the context is the top of the request-context stack,
\* an application context is current (the one created for the context when
\* none was current after the eviction), and no context on the stack is
\* preserved.
C18_PushEvictsAndInstalls ==
    [][ (lastPush'.op = "push" /\ request_ctx_stack' # request_ctx_stack)
        => LET top == StackTop(request_ctx_stack)
               was == top # None /\ preserved[top]
           IN  /\ lastPush'.evicted = IF was THEN top ELSE None
               /\ was => lastPush'.exc = preserved_exc[top]
               /\ lastPush'.outcome = "ok" =>
                     /\ StackTop(request_ctx_stack') = lastPush'.ctx
                     /\ StackTop(app_ctx_stack') # None
                     /\ Last(implicit_app_ctx'[lastPush'.ctx]) # None
                          => StackTop(app_ctx_stack') = ImplicitApp(lastPush'.ctx)
                     /\ \A i \in 1..Len(request_ctx_stack') :
                           ~preserved'[request_ctx_stack'[i]] ]_vars

\* C18 witness: the push of r2 found r1 preserved with an exception on top
\* of the stack, popped it with that exception, and returned with r2 on
\* top and the application context created for r2 current.
C18_Witness ==
    /\ lastPush.op = "push" /\ lastPush.ctx = "r2"
    /\ lastPush.evicted = "r1" /\ lastPush.exc = "E" /\ lastPush.outcome = "ok"
    /\ request_ctx_stack = <<"r2">>
    /\ app_ctx_stack = <<ImplicitApp("r2")>>
    /\ ~preserved["r1"]

\* ------------------------------------------------------------------------
\* Claims about the lazily created objects, under SpecLazy.

\* C20: under every interleaving of the threads' accesses, create_logger
\* and create_jinja_environment have each been called at most once, and
\* all the threads that were given a logger, or an environment, were given
\* the same one.
C20_CreatedOnce ==
    /\ n_create_logger <= 1
    /\ n_create_jinja <= 1
    /\ \A t, u \in Threads :
          /\ (lzgot[t].logger # NoObject /\ lzgot[u].logger # NoObject)
                => lzgot[t].logger = lzgot[u].logger
          /\ (lzgot[t].jinja_env # NoObject /\ lzgot[u].jinja_env # NoObject)
                => lzgot[t].jinja_env = lzgot[u].jinja_env

\* C20 witness: of three threads that read app.logger, one created it, one
\* found it at the check under the lock and one at the check without the
\* lock, and two threads were given the one Jinja environment.
C20_Witness ==
    /\ lzgot["t1"].logger_path = "create"
    /\ lzgot["t2"].logger_path = "recheck"
    /\ lzgot["t3"].logger_path = "fast"
    /\ lzgot["t1"].logger = 1 /\ lzgot["t2"].logger = 1 /\ lzgot["t3"].logger = 1
    /\ lzgot["t1"].jinja_env = 1 /\ lzgot["t2"].jinja_env = 1
    /\ n_create_logger = 1 /\ n_create_jinja = 1

\* ------------------------------------------------------------------------
\* Claims about the lookup of handlers.

\* C21: handle_http_exception, for an exception with the status code c,
\* calls the handler for c of the request's blueprint when its table has
\* one, otherwise the handler for c of the application, and returns what
\* the handler returns; when neither table has one, or the exception has no
\* code, it calls no handler and returns the exception itself.
C21_HttpHandlerLookup ==
    last.op = "handle_http_exception" =>
    LET c == last.e.code
        calls == TraceIdx("error_handler")
    IN  IF c # 0 /\ c \in error_handler_codes[last.bp]
        THEN /\ Cardinality(calls) = 1
             /\ \A i \in calls : last.trace[i].fn = Fn(last.bp, c)
                                  /\ last.trace[i].exc = last.e
                                  /\ last.val = last.trace[i].rout
        ELSE IF c # 0 /\ c \in error_handler_codes[None]
        THEN /\ Cardinality(calls) = 1
             /\ \A i \in calls : last.trace[i].fn = Fn(None, c)
                                  /\ last.trace[i].exc = last.e
                                  /\ last.val = last.trace[i].rout
        ELSE calls = {} /\ last.val = last.e

\* C21 witness: both tables have a handler for 404, the request is of the
\* blueprint, and the blueprint's handler was called for NotFound.
C21_Witness ==
    /\ last.op = "handle_http_exception"
    /\ last.bp = "bp" /\ last.e.code = 404
    /\ 404 \in error_handler_codes["bp"] /\ 404 \in error_handler_codes[None]
    /\ \E i \in TraceIdx("error_handler") : last.trace[i].fn = Fn("bp", 404)
    /\ last.val = HandlerValue("bp", 404)

\* C22 as claimed: when handle_user_exception is given a user exception, or
\* a trapped HTTP exception, that no typed handler of the application
\* matches, the exception that leaves full_dispatch_request is that
\* exception.
C22_NoMatchReraisesOriginal ==
    last.op = "request" =>
    \A i \in TraceIdx("handle_user_exception") :
        LET e == last.trace[i].exc
        IN  (/\ ~(is_http_exception(e) /\ ~trap_http_exception(e))
             /\ last.rq.bp = None
             /\ \A j \in 1..Len(error_handler_spec) :
                   ~IsInstance(e, error_handler_spec[j]))
            => Escaped = e

\* ------------------------------------------------------------------------
\* Claims about AppContext.push and AppContext.pop, under SpecCtx.

\* C23 as claimed: a push of a context whose reference count is not 0
\* leaves the application-context stack as it was.
C23_ReentrantPushLeavesStack ==
    [][ \A c \in AppCtxs :
          (refcnt'[c] = refcnt[c] + 1 /\ refcnt[c] # 0)
          => app_ctx_stack' = app_ctx_stack ]_vars

\* C23: every push increments the reference count of the context and puts
\* the context on top of the application-context stack, whatever the count
\* was.
C23_PushAlwaysStacks ==
    [][ \A c \in AppCtxs :
          refcnt'[c] = refcnt[c] + 1
          => app_ctx_stack' = Append(app_ctx_stack, c) ]_vars

\* C23 witness: a1 was pushed twice and is on the stack twice.
C23_Witness ==
    /\ refcnt["a1"] = 2
    /\ app_ctx_stack = <<"a1", "a1">>

TeardownWithinScopes ==
    /\ \A i, j \in TraceIdx("teardown_request") :
        (i < j /\ last.trace[i].fn.scope = last.trace[j].fn.scope)
            => last.trace[i].fn.idx > last.trace[j].fn.idx
    /\ \A i \in TraceIdx("teardown_request") : last.trace[i].exc = Escaped
    /\ \A k \in TraceIdx("request_tearing_down") :
        /\ last.trace[k].exc = Escaped
        /\ \A f \in Applicable(teardown_request_funcs) :
            \E i \in CallsOf("teardown_request", f) : i < k

\* C25 as claimed: for a request of a blueprint, the blueprint's
\* teardown-request functions are called before those of the application.
C25_BlueprintTeardownFirst ==
    (last.op = "request" /\ last.rq.bp # None) =>
        /\ TeardownWithinScopes
        /\ \A i, j \in TraceIdx("teardown_request") :
            (i < j /\ last.trace[i].fn.scope # last.trace[j].fn.scope)
                => last.trace[i].fn.scope = last.rq.bp

\* C25: for a request of a blueprint, do_teardown_request calls the
\* application's teardown-request functions (in reverse registration order)
\* before the blueprint's (in reverse registration order), each with the
\* exception if any, and sends request_tearing_down after all of them.
C25_ApplicationTeardownFirst ==
    (last.op = "request" /\ last.rq.bp # None) =>
        /\ TeardownWithinScopes
        /\ \A i, j \in TraceIdx("teardown_request") :
            (i < j /\ last.trace[i].fn.scope # last.trace[j].fn.scope)
                => last.trace[i].fn.scope = None

\* C25 witness: a request of the blueprint, with one teardown-request
\* function on the application and one on the blueprint: the application's
\* was called, then the blueprint's, then the signal was sent.
C25_Witness ==
    /\ last.op = "request" /\ last.rq.bp = "bp"
    /\ teardown_request_funcs[None] >= 1 /\ teardown_request_funcs["bp"] >= 1
    /\ \E i \in CallsOf("teardown_request", Fn(None, 1)) :
       \E j \in CallsOf("teardown_request", Fn("bp", 1)) :
       \E k \in TraceIdx("request_tearing_down") : i < j /\ j < k

\* The calls of one kind in the latest request run the application's
\* functions before the blueprint's, each scope in registration order.
ApplicationThenBlueprint(ev) ==
    \A i, j \in TraceIdx(ev) :
        i < j => \/ last.trace[i].fn.scope = None /\ last.trace[j].fn.scope # None
                 \/ /\ last.trace[i].fn.scope = last.trace[j].fn.scope
                    /\ last.trace[i].fn.idx < last.trace[j].fn.idx

\* C26: preprocess_request calls every applicable URL value preprocessor
\* (the application's, then the blueprint's) before any before-request
\* function, and the before-request functions in the order application
\* then blueprint, each scope in registration order; every function called
\* before another one returned None, and after a before-request function
\* that returns a value no before-request function, no dispatch_request
\* and no view is called and that value is what make_response receives.
C26_PreprocessOrder ==
    last.op = "request" =>
        /\ ApplicationThenBlueprint("url_value_preprocessor")
        /\ ApplicationThenBlueprint("before_request")
        /\ \A j \in TraceIdx("before_request") :
            /\ \A f \in Applicable(url_value_preprocessors) :
                \E i \in CallsOf("url_value_preprocessor", f) :
                    i < j /\ last.trace[i].rout = PyNone
            /\ \A i \in TraceIdx("before_request") :
                i < j => last.trace[i].rout = PyNone
            /\ last.trace[j].rout = HookReturn =>
                /\ \A i \in 1..Len(last.trace) :
                    i > j => last.trace[i].ev \notin
                        {"before_request", "url_value_preprocessor",
                         "dispatch_request", "view"}
                /\ last.trace[j + 1].ev = "make_response"
                /\ last.trace[j + 1].rin = HookReturn

\* C26 witness: a request of the blueprint; the application's
\* before-request function was called and returned None, then the
\* blueprint's returned a value, which became the response without
\* dispatch_request or a view being called.
C26_Witness ==
    /\ last.op = "request" /\ last.rq.bp = "bp"
    /\ last.outcome = "response"
    /\ \E i \in CallsOf("before_request", Fn(None, 1)) :
       \E j \in CallsOf("before_request", Fn("bp", 1)) :
        /\ i < j
        /\ last.trace[i].rout = PyNone
        /\ last.trace[j].rout = HookReturn
    /\ TraceIdx("view") = {} /\ TraceIdx("dispatch_request") = {}
    /\ \E m \in TraceIdx("make_response") : last.trace[m].rin = HookReturn

\* The place of a scope in the order process_response is claimed to use:
\* the request's own callbacks, the blueprint's, the application's.
AfterRank(scope) == CASE scope = "this" -> 0 [] scope = None -> 2 [] OTHER -> 1

\* C27: process_response calls the callbacks registered with
\* after_this_request during this request first, then the after-request
\* functions of the request's blueprint in reverse registration order,
\* then the application's in reverse registration order; a callback of
\* after_this_request is called only in the request whose view
\* registered it, after that view.
C27_AfterRequestOrder ==
    last.op = "request" =>
        /\ \A i, j \in TraceIdx("after_request") :
            i < j =>
                \/ AfterRank(last.trace[i].fn.scope) < AfterRank(last.trace[j].fn.scope)
                \/ /\ last.trace[i].fn.scope = last.trace[j].fn.scope
                   /\ last.trace[i].fn.idx > last.trace[j].fn.idx
        /\ \A i \in TraceIdx("after_request") :
            /\ last.trace[i].fn.scope \in {"this", None, last.rq.bp}
            /\ last.trace[i].fn.scope = "this" =>
                /\ last.rq.this
                /\ \E v \in TraceIdx("view") : v < i
        /\ (last.rq.this /\ TraceIdx("after_request") # {}) =>
            \E i \in CallsOf("after_request", Fn("this", 1)) :
                \A j \in TraceIdx("after_request") : i <= j

\* C27 witness: in a request of the blueprint the view registered a
\* callback with after_this_request; it was called first, then the
\* blueprint's after-request function, then the application's.
C27_Witness ==
    /\ last.op = "request" /\ last.rq.bp = "bp" /\ last.rq.this
    /\ \E i \in CallsOf("after_request", Fn("this", 1)) :
        /\ CallsOf("after_request", Fn("bp", 1)) = {i + 1}
        /\ CallsOf("after_request", Fn(None, 1)) = {i + 2}
    /\ last.outcome = "response"

\* C28: process_response calls save_session at most once in a request,
\* only after every function of the after-request chain has been called
\* (none is called after it), with the response the last of them
\* returned, and never when the request's session is the null session.
C28_SaveAfterHooks ==
    last.op = "request" =>
        /\ Cardinality(TraceIdx("save_session")) <= 1
        /\ last.rq.sess = NullSession => TraceIdx("save_session") = {}
        /\ \A k \in TraceIdx("save_session") :
            /\ \A i \in TraceIdx("after_request") : i < k
            /\ \A n \in 1..Len(after_request_chain(last.rq)) :
                Cardinality(CallsOf("after_request", after_request_chain(last.rq)[n])) = 1
            /\ last.trace[k - 1].ev \in {"after_request", "make_response"}
            /\ last.trace[k].rin = last.trace[k - 1].rout

\* C28 witness: a request with a cookie session and two after-request
\* functions: both were called, then save_session, once, with the response
\* the second call returned.
C28_Witness ==
    /\ last.op = "request" /\ last.outcome = "response"
    /\ last.rq.sess # NullSession
    /\ Cardinality(TraceIdx("after_request")) = 2
    /\ \E k \in TraceIdx("save_session") :
        /\ TraceIdx("save_session") = {k}
        /\ TraceIdx("after_request") = {k - 2, k - 1}
        /\ last.trace[k].rin = last.trace[k - 1].rout

\* C29: making the request context of a request that matches no rule does
\* not raise: the routing exception is stored in routing_exception,
\* url_rule and view_args stay None, and the exception is raised only
\* after the push, by dispatch_request, in place of any view; for a
\* request that matches, routing_exception stays None, url_rule and
\* view_args are set and no routing exception is raised.
C29_RoutingFailureDeferred ==
    last.op = "request" =>
        /\ ~last.req.raised
        /\ last.trace[1].ev = "push"
        /\ \A k \in TraceIdx("raise_routing_exception") :
            k > 2 /\ last.trace[k - 1].ev = "dispatch_request"
        /\ IF last.rq.route = "match"
           THEN /\ last.req.routing_exception = NoExc
                /\ last.req.url_rule # None /\ last.req.view_args # None
                /\ TraceIdx("raise_routing_exception") = {}
           ELSE /\ last.req.routing_exception = Exc(last.rq.route, "routing")
                /\ last.req.url_rule = None /\ last.req.view_args = None
                /\ TraceIdx("view") = {}
                /\ \A d \in TraceIdx("dispatch_request") :
                    /\ last.trace[d + 1].ev = "raise_routing_exception"
                    /\ last.trace[d + 1].exc.origin = "routing"
                    /\ (~debug \/ last.rq.method = "GET") =>
                          last.trace[d + 1].exc = last.req.routing_exception

\* C29 witness: a request for an unknown URL: NotFound was stored on the
\* request, a before-request function ran after the push, and
\* dispatch_request then raised the stored exception.
C29_Witness ==
    /\ last.op = "request" /\ last.rq.route = "NotFound"
    /\ last.req.routing_exception.cls = "NotFound"
    /\ last.req.url_rule = None
    /\ \E b \in TraceIdx("before_request") :
       \E k \in TraceIdx("raise_routing_exception") :
        /\ 1 < b /\ b < k
        /\ last.trace[k].exc = last.req.routing_exception

\* ------------------------------------------------------------------------
\* Claims about handle_url_build_error (checked under SpecBuild).

\* The handlers of the latest call that were called before handler i and
\* raised a BuildError.
Replaced(i) == {j \in 1..Len(last.hs) : j < i /\ last.hs[j] = "raise"}
\* The error in force when handler i is reached: the one the latest of
\* them raised, or the original.
CurrentError(i) ==
    IF Replaced(i) = {} THEN BuildError(0)
    ELSE BuildError(CHOOSE j \in Replaced(i) : \A k \in Replaced(i) : k <= j)
\* The first handler that returns a URL (0: none does).
FirstUrl ==
    IF \E i \in 1..Len(last.hs) : last.hs[i] = "url"
    THEN CHOOSE i \in 1..Len(last.hs) :
            last.hs[i] = "url" /\ \A j \in 1..(i - 1) : last.hs[j] # "url"
    ELSE 0

\* C30 as claimed: the handlers are called in registration order up to the
\* first that returns a value, which is returned; a BuildError raised by a
\* handler replaces the current error for the handlers after it; when no
\* handler returns a value the call raises the original error if none
\* replaced it and the last replacing error otherwise.
C30_BuildErrorChain ==
    last.op = "handle_url_build_error" =>
        LET n == IF FirstUrl = 0 THEN Len(last.hs) ELSE FirstUrl
        IN  /\ last.calls = [i \in 1..n |-> <<i, CurrentError(i)>>]
            /\ IF FirstUrl # 0
               THEN last.kind = "return" /\ last.val = BuiltUrl(FirstUrl)
               ELSE last.kind = "raise" /\ last.val = CurrentError(Len(last.hs) + 1)

\* Teardown functions of both kinds: requests handled by wsgi_app, and
\* one application context pushed, and popped when it has been pushed, by
\* the caller between them.
TeardownNext ==
    \/ teardown_request
    \/ blueprint_hook("teardown_request")
    \/ teardown_appcontext
    \/ wsgi_app
    \/ next_call
    \/ last.op = "idle" /\ AppContext_push("a1")
    \/ /\ last.op = "idle" /\ refcnt["a1"] > 0
       /\ \E exc \in ExcOrNone : AppContext_pop("a1", exc)

SpecTeardown == CtxInit /\ [][TeardownNext]_vars

\* ------------------------------------------------------------------------
\* Claims about both teardown loops (checked under SpecTeardown).

\* C31: when a teardown-request function raises, its call is the last
\* event of the request, the functions after it in the loop are not called,
\* request_tearing_down is not sent and the exception leaves wsgi_app; when
\* a teardown-appcontext function raises, the functions after it in the
\* reverse-order loop are not called and the exception leaves pop before
\* the context is taken off the stack.
C31_TeardownErrorPropagates ==
    /\ []((last.op = "request" /\ last.rq.tdRaise # 0) =>
            /\ Cardinality(TraceIdx("teardown_request")) = last.rq.tdRaise
            /\ last.trace[Len(last.trace)].ev = "teardown_request"
            /\ last.trace[Len(last.trace)].rout = PyRaise
            /\ \A i \in TraceIdx("teardown_request") :
                i < Len(last.trace) => last.trace[i].rout = PyNone
            /\ TraceIdx("request_tearing_down") = {}
            /\ last.outcome = "raise"
            /\ last.val = Exc("HookError", "teardown_request"))
    /\ [][ (refcnt'["a1"] = refcnt["a1"] - 1 /\ lastPop'.raiseAt # 0) =>
            /\ lastPop'.outcome = "TeardownError"
            /\ Len(lastPop'.calls) = td_app_n - lastPop'.raiseAt + 1
            /\ \A k \in 1..Len(lastPop'.calls) :
                lastPop'.calls[k][1] = td_app_n - k + 1
            /\ app_ctx_stack' = app_ctx_stack ]_vars

\* C31 witness: the second of two teardown-request functions, the first
\* in the loop, raised in the latest request: the other was not called and
\* the exception left wsgi_app.
C31_Witness ==
    /\ last.op = "request" /\ last.rq.tdRaise = 1
    /\ teardown_request_funcs[None] = 2
    /\ CallsOf("teardown_request", Fn(None, 2)) # {}
    /\ CallsOf("teardown_request", Fn(None, 1)) = {}
    /\ last.outcome = "raise" /\ last.val.origin = "teardown_request"

\* C32 as claimed: an HTTP exception handed to handle_user_exception is
\* trapped exactly when TRAP_HTTP_EXCEPTIONS is set, or
\* TRAP_BAD_REQUEST_ERRORS is set and it is a BadRequest; a trapped one is
\* not given to handle_http_exception, and when no typed handler matches
\* it, it is the exception that leaves full_dispatch_request and that
\* handle_exception receives.
C32_TrappedReraisedToHandleException ==
    last.op = "request" =>
    \A i \in TraceIdx("handle_user_exception") :
        LET e == last.trace[i].exc
            trapped == trap_http_exceptions
                       \/ (TRAP_BAD_REQUEST_ERRORS /\ e.cls = "BadRequest")
        IN  is_http_exception(e) =>
            /\ trapped <=> TraceIdx("handle_http_exception") = {}
            /\ (/\ trapped
                /\ \A j \in 1..Len(error_handler_spec) :
                      ~IsInstance(e, error_handler_spec[j]))
               => /\ Escaped = e
                  /\ \A g \in TraceIdx("got_request_exception") : last.trace[g].exc = e

\* ------------------------------------------------------------------------
\* Claims about the test client (checked under SpecClient).

\* C33 as claimed: for any stack at entry, after session_transaction the
\* request-context stack is the stack at entry, whether the body returned
\* or raised, and in the body the top of the stack is the context that was
\* on top at entry (None for an empty stack).
C33_StackRestored ==
    (lastPush.op = "session_transaction" /\ lastPush.outcome = "ok") =>
        /\ request_ctx_stack = lastPush.entry
        /\ lastPush.bodyTop = StackTop(lastPush.entry)

\* C34: __enter__ on a client whose preserve_context is set raises
\* RuntimeError and changes neither the flag nor the stack, and otherwise
\* sets the flag; __exit__ clears the flag and pops a preserved context
\* that is on top of the stack, after which no context on the stack is
\* preserved, whatever requests were opened before.
C34_NoNestingNoLeftover ==
    [][ /\ lastPush'.op = "enter" =>
            /\ lastPush'.outcome = (IF preserve_context THEN "RuntimeError" ELSE "ok")
            /\ preserve_context'
            /\ <<request_ctx_stack, preserved, preserved_exc, implicit_app_ctx>>'
                 = <<request_ctx_stack, preserved, preserved_exc, implicit_app_ctx>>
        /\ lastPush'.op = "exit" =>
            /\ ~preserve_context'
            /\ lastPush'.outcome = "ok"
            /\ lastPush'.popped =
                 (IF has_preserved_top(StackTop(request_ctx_stack))
                  THEN StackTop(request_ctx_stack) ELSE None)
            /\ request_ctx_stack' =
                 (IF has_preserved_top(StackTop(request_ctx_stack))
                  THEN StackPopped(request_ctx_stack) ELSE request_ctx_stack)
            /\ \A i \in 1..Len(request_ctx_stack') :
                 ~preserved'[request_ctx_stack'[i]] ]_vars

\* C34 witness: the with block of the client has ended; its __exit__
\* popped the preserved context r2 of a request opened in the block, the
\* stack is empty and the flag is clear.
C34_Witness ==
    /\ lastPush.op = "exit" /\ lastPush.popped = "r2" /\ lastPush.outcome = "ok"
    /\ ~preserve_context
    /\ request_ctx_stack = <<>>
    /\ \A r \in RequestCtxs : ~preserved[r]

\* C35 as claimed (checked under SpecFirst): when a call of the trigger
\* returns to full_dispatch_request, which goes on to preprocess_request
\* and the view, every registered before-first-request function has been
\* called; this for the first request, for the requests of other threads
\* handled at the same time, and for requests after one in which a
\* function raised.
C35_FunctionsRunBeforeRequests ==
    [][ \A t \in Threads :
          (tpc[t] # "idle" /\ tpc'[t] = "idle" /\ tret'[t] # "raised")
            => \A i \in 1..bf_n : bf_calls'[i] >= 1 ]_vars

\* C36 as claimed (checked under SpecSetup): a call that adds a rule to the
\* URL map leaves every endpoint that has a view function with that view
\* function, and a setup call that raises AssertionError leaves
\* view_functions and the URL map as they were before the call.
C36_RejectedRuleChangesNothing ==
    [][ /\ url_map' # url_map =>
            \A e \in Endpoints :
                view_functions[e] # None => view_functions'[e] = view_functions[e]
        /\ (last'.op = "setup" /\ last'.outcome = "AssertionError") =>
            /\ view_functions' = view_functions
            /\ url_map' = url_map ]_vars

\* C37 as claimed (checked under SpecSession): after 's.permanent = v',
\* reading s.permanent yields bool(v), so a session marked permanent gets
\* an expiration time and is refreshed by should_set_cookie when it is not
\* modified.
C37_PermanentAccessor ==
    [][ (~lastSave.done
         /\ session'.content.permantent # session.content.permantent) =>
        LET v == session'.content.permantent = "true"
        IN  /\ permanent(session') = v
            /\ get_expiration_time(session') = v
            /\ should_set_cookie([session' EXCEPT !.modified = FALSE], TRUE) = v ]_vars

\* ------------------------------------------------------------------------
\* Claims about flash messages (checked under SpecFlash).

\* The messages of a list of (category, message) pairs.
MessagesOf(fl) == [i \in 1..Len(fl) |-> fl[i][2]]

\* C38: flash appends its message to session['_flashes'] after the pending
\* ones and leaves the cache of the request alone; the first
\* get_flashed_messages of a request returns the pending messages in call
\* order, removes them from the session and caches them; later calls in the
\* request return the cached messages and leave the session alone, so a
\* message flashed after the first call stays in the session; the next
\* request starts without a cache and with the session as it was left.
C38_FlashedOnce ==
    [][ /\ lastFlash'.op = "flash" =>
            /\ session_flashes'.present
            /\ MessagesOf(session_flashes'.v) =
                 Append(MessagesOf(session_get_flashes(session_flashes)),
                        lastFlash'.message)
            /\ ctx_flashes' = ctx_flashes
        /\ (lastFlash'.op = "get" /\ ~ctx_flashes.loaded) =>
            /\ lastFlash'.rv = MessagesOf(session_get_flashes(session_flashes))
            /\ ~session_flashes'.present /\ session_flashes'.v = <<>>
            /\ ctx_flashes'.loaded
            /\ MessagesOf(ctx_flashes'.v) = lastFlash'.rv
        /\ (lastFlash'.op = "get" /\ ctx_flashes.loaded) =>
            /\ lastFlash'.rv = MessagesOf(ctx_flashes.v)
            /\ ctx_flashes' = ctx_flashes
            /\ session_flashes' = session_flashes
        /\ (lastFlash'.op = "request" /\ lastFlash.op # "request") =>
            /\ ~ctx_flashes'.loaded
            /\ session_flashes' = session_flashes ]_vars

\* C38 witness: m1 was delivered by the first get_flashed_messages of a
\* request, m2 was flashed after it, and a later call in the same request
\* returned m1 again while m2 waits in the session for the next request.
C38_Witness ==
    /\ lastFlash.op = "get" /\ ~lastFlash.first
    /\ lastFlash.rv = <<"m1">>
    /\ ctx_flashes.loaded
    /\ session_flashes.present
    /\ MessagesOf(session_flashes.v) = <<"m2">>

\* ------------------------------------------------------------------------
\* sessions.py, TaggedJSONSerializer (lines 43-89).  A Python value is a
\* record of its type t, its content a when it is not a container, and its
\* members v when it is one; a dict's members are its items, and an
\* exception raised is a value of type "raise".

MaxItems == 2      \* members of a list or tuple given to dumps

Py(t, a, v) == [t |-> t, a |-> a, v |-> v]
Item(k, x) == [t |-> "item", a |-> k, v |-> <<x>>]
PyRaised(cls) == Py("raise", cls, <<>>)

\* The first exception among the results of a comprehension, if any.
Raised(ch) == \E i \in 1..Len(ch) : ch[i].t = "raise"
FirstRaised(ch) ==
    ch[CHOOSE i \in 1..Len(ch) : ch[i].t = "raise" /\ \A j \in 1..(i - 1) : ch[j].t # "raise"]
ItemsRaised(its) == \E i \in 1..Len(its) : its[i].v[1].t = "raise"
FirstItemRaised(its) ==
    its[CHOOSE i \in 1..Len(its) :
            its[i].v[1].t = "raise" /\ \A j \in 1..(i - 1) : its[j].v[1].t # "raise"].v[1]

\* uuid.UUID.hex and uuid.UUID(hex); b64encode and b64decode; the text of
\* Markup.__html__ and Markup(text).
uuid_hex(u) == IF u = "u1" THEN "00000000000000000000000000000001" ELSE "?"
uuid_UUID(h) == IF h = "00000000000000000000000000000001" THEN "u1" ELSE "?"
b64encode(b) == IF b = "by" THEN "Ynk=" ELSE "?"
b64decode(e) == IF e = "Ynk=" THEN "by" ELSE "?"

\* werkzeug's http_date, which writes whole seconds, and parse_date.
http_date(d) ==
    IF d \in {"2020-01-01 00:00:00", "2020-01-01 00:00:00.500000"}
    THEN "Wed, 01 Jan 2020 00:00:00 GMT" ELSE "?"
parse_date(h) == IF h = "Wed, 01 Jan 2020 00:00:00 GMT" THEN "2020-01-01 00:00:00" ELSE "?"

\* {key: x}, a dict of one item.
Tagged(key, x) == Py("dict", "", <<Item(key, x)>>)

\* Line 61: 'return {' d': http_date(value)},' ends with a comma: the value
\* returned is a tuple of one dict.
tag_datetime(d) == Py("tuple", "", <<Tagged(" d", Py("text", http_date(d), <<>>))>>)

\* _tag (lines 49-70), branch by branch in the order of the source.  The
\* file uses the Python 2 names unicode and iteritems: under Python 3
\* (py3) they raise NameError and AttributeError; under Python 2 a byte
\* string is a str and is caught by the bytes branch, and text is unicode.
RECURSIVE tag(_, _)
tag(value, py3) ==
    CASE value.t = "tuple" ->
            LET ch == [i \in 1..Len(value.v) |-> tag(value.v[i], py3)]
            IN  IF Raised(ch) THEN FirstRaised(ch)
                ELSE Tagged(" t", Py("list", "", ch))
      [] value.t = "UUID" -> Tagged(" u", Py("text", uuid_hex(value.a), <<>>))
      [] value.t = "bytes" -> Tagged(" b", Py("text", b64encode(value.a), <<>>))
      [] value.t = "Markup" ->
            IF py3 THEN PyRaised("NameError")
            ELSE Tagged(" m", Py("text", value.a, <<>>))
      [] value.t = "list" ->
            LET ch == [i \in 1..Len(value.v) |-> tag(value.v[i], py3)]
            IN  IF Raised(ch) THEN FirstRaised(ch) ELSE Py("list", "", ch)
      [] value.t = "datetime" -> tag_datetime(value.a)
      [] value.t = "dict" ->
            IF py3 THEN PyRaised("AttributeError")
            ELSE LET its == [i \in 1..Len(value.v) |->
                               Item(value.v[i].a, tag(value.v[i].v[1], py3))]
                 IN  IF ItemsRaised(its) THEN FirstItemRaised(its)
                     ELSE Py("dict", "", its)
      [] value.t = "text" -> IF py3 THEN PyRaised("NameError") ELSE value
      [] OTHER -> value

\* json.dumps: lists and tuples become arrays, dicts objects.
RECURSIVE json_dumps(_)
json_dumps(x) ==
    CASE x.t \in {"list", "tuple"} ->
            Py("array", "", [i \in 1..Len(x.v) |-> json_dumps(x.v[i])])
      [] x.t = "dict" ->
            Py("object", "", [i \in 1..Len(x.v) |-> Item(x.v[i].a, json_dumps(x.v[i].v[1]))])
      [] x.t = "text" -> Py("string", x.a, <<>>)
      [] OTHER -> Py("number", x.a, <<>>)

\* TaggedJSONSerializer.dumps.
dumps(value, py3) ==
    LET tagged == tag(value, py3)
    IN  IF tagged.t = "raise" THEN tagged ELSE json_dumps(tagged)

\* object_hook (lines 74-88) on a decoded object.
object_hook(obj, py3) ==
    IF Len(obj.v) # 1 THEN obj
    ELSE IF py3 THEN PyRaised("AttributeError")
    ELSE LET the_key == obj.v[1].a
             the_value == obj.v[1].v[1]
         IN  CASE the_key = " t" ->
                    IF the_value.t \in {"list", "dict"}
                    THEN Py("tuple", "", the_value.v)
                    ELSE IF the_value.t = "text" THEN Py("tuple", "", <<the_value>>)
                    ELSE PyRaised("TypeError")
               [] the_key = " u" -> Py("UUID", uuid_UUID(the_value.a), <<>>)
               [] the_key = " b" -> Py("bytes", b64decode(the_value.a), <<>>)
               [] the_key = " m" -> Py("Markup", the_value.a, <<>>)
               [] the_key = " d" -> Py("datetime", parse_date(the_value.a), <<>>)
               [] OTHER -> obj

\* json.loads(value, object_hook=object_hook): the hook is applied to every
\* object once its members are decoded.
RECURSIVE json_loads(_, _)
json_loads(j, py3) ==
    CASE j.t = "array" ->
            LET ch == [i \in 1..Len(j.v) |-> json_loads(j.v[i], py3)]
            IN  IF Raised(ch) THEN FirstRaised(ch) ELSE Py("list", "", ch)
      [] j.t = "object" ->
            LET its == [i \in 1..Len(j.v) |->
                          Item(j.v[i].a, json_loads(j.v[i].v[1], py3))]
            IN  IF ItemsRaised(its) THEN FirstItemRaised(its)
                ELSE object_hook(Py("dict", "", its), py3)
      [] j.t = "string" -> Py("text", j.a, <<>>)
      [] OTHER -> Py("int", j.a, <<>>)

\* TaggedJSONSerializer.loads.
loads(value, py3) == IF value.t = "raise" THEN value ELSE json_loads(value, py3)

\* The values given to dumps: one of each type, and lists, tuples and dicts
\* of them, nested once more.
SessionAtoms ==
    {Py("text", "a", <<>>), Py("int", "1", <<>>), Py("UUID", "u1", <<>>),
     Py("bytes", "by", <<>>), Py("Markup", "<b>", <<>>),
     Py("datetime", "2020-01-01 00:00:00", <<>>),
     Py("datetime", "2020-01-01 00:00:00.500000", <<>>)}
SeqsUpTo(S, n) == UNION {[1..k -> S] : k \in 0..n}
ContainersOf(S, n) ==
    {Py("list", "", q) : q \in SeqsUpTo(S, n)}
    \cup {Py("tuple", "", q) : q \in SeqsUpTo(S, n)}
    \cup {Py("dict", "", <<>>)}
    \cup {Py("dict", "", <<Item("k", x)>>) : x \in S}
    \cup {Py("dict", "", <<Item("j", x), Item("k", x)>>) : x \in S}
SessionValues ==
    SessionAtoms \cup ContainersOf(SessionAtoms, MaxItems)
    \cup ContainersOf(ContainersOf(SessionAtoms, 1), 1)

\* One value is serialized and read back.
serializer_round_trip ==
    /\ last.op = "idle"
    /\ \E value \in SessionValues, py3 \in BOOLEAN :
         LET dumped == dumps(value, py3)
         IN  last' = [op |-> "round_trip", value |-> value, py3 |-> py3,
                      dumped |-> dumped, loaded |-> loads(dumped, py3)]
    /\ UNCHANGED <<debug, trap_http_exceptions, hookTables, error_handler_spec, setupTables>>
    /\ UNCHANGED <<ctxVars, firstVars, respVars, sessVars, reqVars, lazyVars>>

JsonNext ==
    \/ serializer_round_trip
    \/ next_call

SpecJson == BuildInit /\ [][JsonNext]_vars

\* C39 as claimed (checked under SpecJson): for every value built from
\* strings, numbers, lists, string-keyed dicts, tuples, UUIDs, byte
\* strings, markup objects and datetimes, loads(dumps(v)) is v, with the
\* same types.
C39_RoundTrip ==
    last.op = "round_trip" => last.loaded = last.value

====
